---------------------------- MODULE Spec2Model ----------------------------
(***************************************************************************)
(* A model of crypto-wasm-ts: the accumulator adapter with its state      *)
(* store, and the credential schema (conversion from JSON-schema syntax,  *)
(* validation, flattening, JSON round trip).                               *)
(*                                                                         *)
(* The accumulator classes and the in-memory state store are not among    *)
(* the source files at hand (only their test, tests/accumulator.spec.ts,  *)
(* is); they are modelled from the specification, sections 4.6, 6 and 7.  *)
(***************************************************************************)
EXTENDS Integers, Sequences, FiniteSets, TLC

(***************************************************************************)
(* Bounds of the model.                                                    *)
(***************************************************************************)
NumElems == 2
MaxBatch == 2
MaxCount == 3
MaxChain == 2
MaxItems == 2
MaxPlaces == 2
MaxFlattens == 2
MaxExponent == 7
NumCallers == 2
MaxMsgs == 3

VARIABLES
  accState,     \* InMemoryState.state: the set of stored members
  accumulated,  \* Accumulator.accumulated: the accumulator value
  added,        \* history: elements added by a successful call, not removed by a later one
  midway,       \* history: elements written by a batch call that failed after its checks
  lastCall,     \* history: the last call and its outcome
  wit,          \* a user's membership witness as generated, never updated
  witUpd,       \* the same witness, updated with the info of every batch since
  witAt,        \* the accumulator value at which wit was generated
  chainLen,     \* number of update infos applied to witUpd (counted up to MaxChain)
  jsonSchema,   \* the JSON-schema document given to new CredentialSchema
  parsingOpts,  \* the parsing options given with it
  cs,           \* the CredentialSchema built from them (or the fact that it threw)
  flattened,    \* the results of the calls of cs.flatten() so far
  csReordered,  \* a CredentialSchema built from the same document with its keys reordered
  flattenedReordered, \* the results of csReordered.flatten()
  j,            \* the object returned by cs.toJSON(), possibly edited by the caller
  recreated,    \* the CredentialSchema returned by CredentialSchema.fromJSON(j)
  credBuilder,  \* the CredentialBuilder: its subject and its credential status
  cred,         \* the Credential returned by credBuilder.sign, as its holder has it now
  issued,       \* history: the Credential as sign returned it
  verified,     \* the last verification of a credential and its result
  pb,           \* the PresentationBuilder: credentials, revealedAttributes,
                \* attributeEqualities and credStatuses
  pbCall,       \* the last call on the PresentationBuilder and its outcome
  presentation, \* what finalize() built: statements, witnesses and the specification
  signer,       \* a ThresholdSigner: its fields
  tsCall,       \* the last call on the ThresholdSigner and its outcome
  tsLog,        \* the methods of the ThresholdSigner that start or finish a round and
                \* have returned, in the order in which each first did
  quasi,        \* a QuasiProofSpecG1: statements, metaStatements, setupParams, context
  passed,       \* what was given to the calls on the QuasiProofSpecG1, in their order,
                \* with the witnesses of the statements
  qOut,         \* the last call on the QuasiProofSpecG1 and the index it returned
  verification, \* the last verification of the presentation and its result
  sigParams,    \* a PSSignatureParams, the last call on it and what it returned
  typed,        \* the last call of cs.typeOfName and its outcome
  inFlight,     \* the accumulator mutations of concurrent callers that have not
                \* returned yet, each with the point at which it is suspended
  serialized,   \* toJSON() of the presentation builder, once called
  blind,        \* the blinded credential request, from its builder to the credential
  materialized  \* toProofSpec() of the quasi spec, the proofs through either and
                \* their verification

accVars == <<accState, accumulated>>
histVars == <<added, midway, lastCall>>
witVars == <<wit, witUpd, witAt, chainLen>>
schemaVars == <<jsonSchema, parsingOpts, cs, flattened, csReordered,
                flattenedReordered, j, recreated>>
credVars == <<credBuilder, cred, issued, verified>>
presVars == <<pb, pbCall, presentation>>
tsVars == <<signer, tsCall, tsLog>>
quasiVars == <<quasi, passed, qOut, materialized>>
proofVars == <<verification>>
blindVars == <<blind>>
jsonVars == <<serialized>>
concVars == <<inFlight>>
typeVars == <<typed>>
psVars == <<sigParams>>
laterVars == <<tsVars, quasiVars, proofVars, blindVars, jsonVars, concVars, typeVars,
               psVars>>
vars == <<accVars, histVars, witVars, schemaVars, credVars, presVars, laterVars>>

(***************************************************************************)
(* Accumulator members and batches.                                        *)
(***************************************************************************)
Elems == 1..NumElems

Batches == UNION {[1..n -> Elems] : n \in 0..MaxBatch}

\* The argument pairs of addRemoveBatches
BatchPairs == {p \in Batches \X Batches : Len(p[1]) + Len(p[2]) <= MaxBatch}

Range(xs) == {xs[i] : i \in DOMAIN xs}

\* The accumulator value is V = P * prod (m + sk) over the members folded in.
\* For a fixed secret key it is a function of how many times each element has
\* been folded in and out, which is what the model keeps.
EmptyAccumulated == [e \in Elems |-> 0]

Times(xs, e) == Cardinality({i \in DOMAIN xs : xs[i] = e})

\* accumulator_add / _remove / _add_batch / _remove_batch / batch updates of the back-end
BatchUpdates(V, adds, rems) == [e \in Elems |-> V[e] + Times(adds, e) - Times(rems, e)]

InRange(V) == \A e \in Elems : V[e] \in 0..MaxCount

(***************************************************************************)
(* The state store: has / add / remove.                                    *)
(***************************************************************************)
has(s, e) == e \in s

\* Index of the first element of xs at which the store's add (wantPresent =
\* FALSE) or remove (wantPresent = TRUE) throws when the elements are written
\* one by one starting from store s; Len(xs) + 1 when none does.
FirstFailure(s, xs, wantPresent) ==
  LET seen(n) == \E i \in 1..(n - 1) : xs[i] = xs[n]
      bad(n) == IF wantPresent THEN ~has(s, xs[n]) \/ seen(n)
                               ELSE has(s, xs[n]) \/ seen(n)
      fails == {n \in DOMAIN xs : bad(n)}
  IN IF fails = {} THEN Len(xs) + 1
     ELSE CHOOSE n \in fails : \A k \in fails : n <= k

Written(s, xs, wantPresent) ==
  {xs[i] : i \in 1..(FirstFailure(s, xs, wantPresent) - 1)}

\* addBatchToState that forgets to write the store
addBatchToStateNoWrite(s, xs) == s

\* addBatchToState: store.add for each element in turn, stopping at the first throw
addBatchToState(s, xs) == s \cup Written(s, xs, FALSE)

\* removeBatchFromState that stops after the first element
removeBatchFromStateFirstOnly(s, xs) ==
  IF xs = <<>> THEN s ELSE s \ ({xs[1]} \cap Written(s, xs, TRUE))

\* removeBatchFromState: store.remove for each element in turn, stopping at the first throw
removeBatchFromState(s, xs) == s \ Written(s, xs, TRUE)

\* ensureAbsenceOfBatch that looks at the first element only
ensureAbsenceOfFirst(s, xs) == xs = <<>> \/ ~has(s, xs[1])

\* ensureAbsenceOfBatch / ensurePresenceOfBatch: the checks made before anything is written
ensureAbsenceOfBatch(s, xs) == \A i \in DOMAIN xs : ~has(s, xs[i])

ensurePresenceOfBatch(s, xs) == \A i \in DOMAIN xs : has(s, xs[i])

(***************************************************************************)
(* The accumulator mutations.  A call checks its arguments against the     *)
(* store, updates the accumulator value, then writes the store.            *)
(***************************************************************************)
StateAfter(s, adds, rems) ==
  LET afterAdds == addBatchToState(s, adds)
  IN IF FirstFailure(s, adds, FALSE) > Len(adds)
       THEN removeBatchFromState(afterAdds, rems)
       ELSE afterAdds

\* "ok" when every write went through, "midway" when a write threw
WriteOutcome(s, adds, rems) ==
  IF /\ FirstFailure(s, adds, FALSE) > Len(adds)
     /\ FirstFailure(addBatchToState(s, adds), rems, TRUE) > Len(rems)
    THEN "ok" ELSE "midway"

\* The outcome of a call whose checks gave `checked`
Outcome(s, adds, rems, checked) ==
  IF ~checked THEN "rejected" ELSE WriteOutcome(s, adds, rems)

\* The store and the accumulator value after a call: nothing changes when the
\* checks throw; otherwise the value is updated and then the store is written
StoreAfter(adds, rems, checked) ==
  IF checked THEN StateAfter(accState, adds, rems) ELSE accState

ValueAfter(adds, rems, checked) ==
  IF checked THEN BatchUpdates(accumulated, adds, rems) ELSE accumulated

Mutate(adds, rems, checked) ==
  /\ InRange(ValueAfter(adds, rems, checked))
  /\ accumulated' = ValueAfter(adds, rems, checked)
  /\ accState' = StoreAfter(adds, rems, checked)

\* add without its check of absence
addUnchecked(e) == TRUE

addChecked(e) == ~has(accState, e)
removeChecked(e) == has(accState, e)
addBatchChecked(xs) == ensureAbsenceOfBatch(accState, xs)
removeBatchChecked(xs) == ensurePresenceOfBatch(accState, xs)
addRemoveBatchesChecked(adds, rems) ==
  ensureAbsenceOfBatch(accState, adds) /\ ensurePresenceOfBatch(accState, rems)

add(e) == Mutate(<<e>>, <<>>, addChecked(e))
remove(e) == Mutate(<<>>, <<e>>, removeChecked(e))
addBatch(xs) == Mutate(xs, <<>>, addBatchChecked(xs))
removeBatch(xs) == Mutate(<<>>, xs, removeBatchChecked(xs))
addRemoveBatches(adds, rems) == Mutate(adds, rems, addRemoveBatchesChecked(adds, rems))

(***************************************************************************)
(* Mutations of one accumulator by concurrent callers.  A mutation runs    *)
(* without interruption except where it awaits the state store: it reads   *)
(* the store, then checks what it read and updates the accumulator value,  *)
(* then writes the store.                                                  *)
(***************************************************************************)
Callers == 1..NumCallers

Idle(outcome) == [pc |-> "idle", outcome |-> outcome]

NoneInFlight == [calls |-> [p \in Callers |-> Idle("none")], overlapped |-> FALSE]

\* The accumulator value with e folded in or out by any number of calls
Bounded(V) == \A e \in Elems : V[e] \in (0 - MaxCount)..MaxCount

\* A check that passes whatever the store returned
checkSkipped(op, seen) == TRUE

\* ensureAbsence / ensurePresence on what state.has returned
checkOfStore(op, seen) == IF op = "add" THEN ~seen ELSE seen

\* accumulator.add(e, sk, state) or accumulator.remove(e, sk, state) is called:
\* it runs up to its await of state.has(e)
CallMutation == \E p \in Callers : \E op \in {"add", "remove"} : \E e \in Elems :
  /\ inFlight.calls[p].pc = "idle"
  /\ inFlight' = [calls |-> [inFlight.calls EXCEPT
                               ![p] = [pc |-> "read", op |-> op, e |-> e,
                                       seen |-> has(accState, e)]],
                  overlapped |-> \/ inFlight.overlapped
                                 \/ \E q \in Callers \ {p} : inFlight.calls[q].pc # "idle"]
  /\ UNCHANGED <<accVars, histVars, witVars, schemaVars, credVars, presVars,
                 tsVars, quasiVars, proofVars, blindVars, jsonVars, typeVars, psVars>>

\* The call resumes with what state.has returned: it throws, or it updates the
\* accumulator value and runs up to its await of state.add(e) or state.remove(e)
ResumeAfterRead == \E p \in Callers :
  /\ inFlight.calls[p].pc = "read"
  /\ \E c \in {inFlight.calls[p]} :
       IF checkOfStore(c.op, c.seen)
         THEN /\ accumulated' = BatchUpdates(accumulated,
                                             IF c.op = "add" THEN <<c.e>> ELSE <<>>,
                                             IF c.op = "add" THEN <<>> ELSE <<c.e>>)
              /\ Bounded(accumulated')
              /\ inFlight' = [inFlight EXCEPT
                                !.calls[p] = [pc |-> "write", op |-> c.op, e |-> c.e]]
         ELSE /\ accumulated' = accumulated
              /\ inFlight' = [inFlight EXCEPT !.calls[p] = Idle("rejected")]
  /\ UNCHANGED <<accState, histVars, witVars, schemaVars, credVars, presVars,
                 tsVars, quasiVars, proofVars, blindVars, jsonVars, typeVars, psVars>>

\* The store writes: state.add(e) throws when e is there, state.remove(e) when
\* it is not; the call returns or throws accordingly
ResumeAfterWrite == \E p \in Callers :
  /\ inFlight.calls[p].pc = "write"
  /\ \E c \in {inFlight.calls[p]} :
       IF has(accState, c.e) = (c.op = "add")
         THEN /\ inFlight' = [inFlight EXCEPT !.calls[p] = Idle("midway")]
              /\ UNCHANGED <<accState, added>>
         ELSE /\ inFlight' = [inFlight EXCEPT !.calls[p] = Idle("ok")]
              /\ accState' = IF c.op = "add" THEN accState \cup {c.e} ELSE accState \ {c.e}
              /\ added' = IF c.op = "add" THEN added \cup {c.e} ELSE added \ {c.e}
  /\ UNCHANGED <<accumulated, midway, lastCall, witVars, schemaVars, credVars, presVars,
                 tsVars, quasiVars, proofVars, blindVars, jsonVars, typeVars, psVars>>

(***************************************************************************)
(* Membership witnesses and their update with public update info.          *)
(***************************************************************************)
NoWit == [elem |-> 0, val |-> EmptyAccumulated, ok |-> FALSE]

\* membershipWitness: C = V^(1/(e + sk)), the value with e folded out once
membershipWitness(V, e) == [elem |-> e, val |-> [V EXCEPT ![e] = @ - 1], ok |-> TRUE]

\* verifyMembershipWitness: C^(e + sk) = V
verifyMembershipWitness(e, w, V) ==
  /\ w.ok
  /\ w.elem = e
  /\ [w.val EXCEPT ![e] = @ + 1] = V

\* WitnessUpdatePublicInfo.new(accumulated, additions, removals, sk)
WitnessUpdatePublicInfo(V, adds, rems) == [from |-> V, adds |-> adds, rems |-> rems]

\* An update that applies the additions of the info and ignores its removals
updateIgnoringRemovals(w, info) ==
  [w EXCEPT !.val = BatchUpdates(w.val, info.adds, <<>>)]

\* updateUsingPublicInfoPostBatchUpdate(member, additions, removals, info): the
\* result is a witness for the post-update value when the old one was a witness
\* for the value the info was made at and the member is not among the removals;
\* otherwise it is a witness for nothing.
updateUsingPublicInfoPostBatchUpdate(w, info) ==
  IF /\ w.ok
     /\ [w.val EXCEPT ![w.elem] = @ + 1] = info.from
     /\ w.elem \notin Range(info.rems)
    THEN [w EXCEPT !.val = BatchUpdates(w.val, info.adds, info.rems)]
    ELSE [w EXCEPT !.ok = FALSE]

\* The accumulator manager publishes the update info of every call that
\* changes the accumulator value, and the user applies it to witUpd.  A
\* witness whose member is removed is dropped.
Publish(adds, rems, checked) ==
  IF ~checked \/ ~wit.ok
    THEN UNCHANGED witVars
    ELSE IF wit.elem \in Range(rems)
      THEN /\ wit' = NoWit
           /\ witUpd' = NoWit
           /\ witAt' = EmptyAccumulated
           /\ chainLen' = 0
      ELSE /\ witUpd' = updateUsingPublicInfoPostBatchUpdate(
                          witUpd, WitnessUpdatePublicInfo(accumulated, adds, rems))
           /\ chainLen' = IF chainLen < MaxChain THEN chainLen + 1 ELSE chainLen
           /\ UNCHANGED <<wit, witAt>>

\* accumulator.membershipWitness(e, sk, state): throws unless e is in the store
GenWitness == \E e \in Elems :
  /\ has(accState, e)
  /\ wit' = membershipWitness(accumulated, e)
  /\ witUpd' = membershipWitness(accumulated, e)
  /\ witAt' = accumulated
  /\ chainLen' = 0
  /\ UNCHANGED <<accVars, histVars, schemaVars, credVars, presVars, laterVars>>

AddPublished == \E e \in Elems :
  add(e) /\ Publish(<<e>>, <<>>, addChecked(e)) /\ UNCHANGED <<histVars, schemaVars, credVars, presVars, laterVars>>

RemovePublished == \E e \in Elems :
  remove(e) /\ Publish(<<>>, <<e>>, removeChecked(e)) /\ UNCHANGED <<histVars, schemaVars, credVars, presVars, laterVars>>

AddBatchPublished == \E xs \in Batches :
  addBatch(xs) /\ Publish(xs, <<>>, addBatchChecked(xs)) /\ UNCHANGED <<histVars, schemaVars, credVars, presVars, laterVars>>

RemoveBatchPublished == \E xs \in Batches :
  removeBatch(xs) /\ Publish(<<>>, xs, removeBatchChecked(xs)) /\ UNCHANGED <<histVars, schemaVars, credVars, presVars, laterVars>>

AddRemoveBatchesPublished == \E p \in BatchPairs :
  /\ addRemoveBatches(p[1], p[2])
  /\ Publish(p[1], p[2], addRemoveBatchesChecked(p[1], p[2]))
  /\ UNCHANGED <<histVars, schemaVars, credVars, presVars, laterVars>>

NextWit ==
  \/ GenWitness
  \/ AddPublished
  \/ RemovePublished
  \/ AddBatchPublished
  \/ RemoveBatchPublished
  \/ AddRemoveBatchesPublished

(***************************************************************************)
(* History of the calls made on one accumulator with one store.            *)
(***************************************************************************)
\* A batch is mixed when it names an element that fails the check and one that passes it
Mixed(adds, rems) ==
  /\ \/ \E i \in DOMAIN adds : has(accState, adds[i])
     \/ \E i \in DOMAIN rems : ~has(accState, rems[i])
  /\ \/ \E i \in DOMAIN adds : ~has(accState, adds[i])
     \/ \E i \in DOMAIN rems : has(accState, rems[i])

\* lastCall: the last call and how it ended
Record(op, adds, rems, checked) ==
  /\ lastCall' = [op |-> op, outcome |-> Outcome(accState, adds, rems, checked),
                  mixed |-> Mixed(adds, rems), both |-> adds # <<>> /\ rems # <<>>]
  /\ UNCHANGED <<added, midway, witVars, schemaVars, credVars, presVars, laterVars>>

\* added and midway: what the calls so far have added and removed
Tally(adds, rems, checked) ==
  LET out == Outcome(accState, adds, rems, checked)
  IN /\ added' = IF out = "ok" THEN (added \cup Range(adds)) \ Range(rems) ELSE added
     /\ midway' = CASE out = "ok" -> midway \ (Range(adds) \cup Range(rems))
                    [] out = "midway" -> midway \cup Range(adds) \cup Range(rems)
                    [] OTHER -> midway
     /\ UNCHANGED <<lastCall, witVars, schemaVars, credVars, presVars, laterVars>>

AddTallied == \E e \in Elems :
  add(e) /\ Tally(<<e>>, <<>>, addChecked(e))

RemoveTallied == \E e \in Elems :
  remove(e) /\ Tally(<<>>, <<e>>, removeChecked(e))

AddBatchTallied == \E xs \in Batches :
  addBatch(xs) /\ Tally(xs, <<>>, addBatchChecked(xs))

RemoveBatchTallied == \E xs \in Batches :
  removeBatch(xs) /\ Tally(<<>>, xs, removeBatchChecked(xs))

AddRemoveBatchesTallied == \E p \in BatchPairs :
  addRemoveBatches(p[1], p[2]) /\ Tally(p[1], p[2], addRemoveBatchesChecked(p[1], p[2]))

AddRecorded == \E e \in Elems :
  add(e) /\ Record("add", <<e>>, <<>>, addChecked(e))

RemoveRecorded == \E e \in Elems :
  remove(e) /\ Record("remove", <<>>, <<e>>, removeChecked(e))

AddBatchRecorded == \E xs \in Batches :
  addBatch(xs) /\ Record("addBatch", xs, <<>>, addBatchChecked(xs))

RemoveBatchRecorded == \E xs \in Batches :
  removeBatch(xs) /\ Record("removeBatch", <<>>, xs, removeBatchChecked(xs))

AddRemoveBatchesRecorded == \E p \in BatchPairs :
  /\ addRemoveBatches(p[1], p[2])
  /\ Record("addRemoveBatches", p[1], p[2], addRemoveBatchesChecked(p[1], p[2]))

(***************************************************************************)
(* Strings, numbers and JSON values.                                       *)
(*                                                                         *)
(* A string is the sequence of its UTF-16 code units, so that the order of *)
(* Array.prototype.sort() and the character-level operations (lastIndexOf, *)
(* match, encodeURIComponent) are the ones of the code.                    *)
(***************************************************************************)
\* 'cryptoVersion'
CRYPTO_VERSION_STR ==
  <<99, 114, 121, 112, 116, 111, 86, 101, 114, 115, 105, 111, 110>>

\* 'credentialSchema'
SCHEMA_STR ==
  <<99, 114, 101, 100, 101, 110, 116, 105, 97, 108, 83, 99, 104, 101, 109,
    97>>

\* 'credentialSubject'
SUBJECT_STR ==
  <<99, 114, 101, 100, 101, 110, 116, 105, 97, 108, 83, 117, 98, 106, 101,
    99, 116>>

\* 'credentialStatus'
STATUS_STR ==
  <<99, 114, 101, 100, 101, 110, 116, 105, 97, 108, 83, 116, 97, 116, 117,
    115>>

\* 'id'
ID_STR == <<105, 100>>

\* 'type'
TYPE_STR == <<116, 121, 112, 101>>

\* 'revocationCheck'
REV_CHECK_STR ==
  <<114, 101, 118, 111, 99, 97, 116, 105, 111, 110, 67, 104, 101, 99, 107>>

\* 'revocationId'
REV_ID_STR == <<114, 101, 118, 111, 99, 97, 116, 105, 111, 110, 73, 100>>

\* 'JsonSchemaValidator2018'
SCHEMA_TYPE_STR ==
  <<74, 115, 111, 110, 83, 99, 104, 101, 109, 97, 86, 97, 108, 105, 100,
    97, 116, 111, 114, 50, 48, 49, 56>>

\* 'string'
STR_TYPE == <<115, 116, 114, 105, 110, 103>>

\* 'stringReversible'
STR_REV_TYPE ==
  <<115, 116, 114, 105, 110, 103, 82, 101, 118, 101, 114, 115, 105, 98,
    108, 101>>

\* 'positiveInteger'
POSITIVE_INT_TYPE ==
  <<112, 111, 115, 105, 116, 105, 118, 101, 73, 110, 116, 101, 103, 101,
    114>>

\* 'integer'
INT_TYPE == <<105, 110, 116, 101, 103, 101, 114>>

\* 'positiveDecimalNumber'
POSITIVE_NUM_TYPE ==
  <<112, 111, 115, 105, 116, 105, 118, 101, 68, 101, 99, 105, 109, 97, 108,
    78, 117, 109, 98, 101, 114>>

\* 'decimalNumber'
NUM_TYPE == <<100, 101, 99, 105, 109, 97, 108, 78, 117, 109, 98, 101, 114>>

\* '0.0.1'
VERSION == <<48, 46, 48, 46, 49>>

\* '#/definitions/encryptableString'
REF_ENCRYPTABLE_STR ==
  <<35, 47, 100, 101, 102, 105, 110, 105, 116, 105, 111, 110, 115, 47, 101,
    110, 99, 114, 121, 112, 116, 97, 98, 108, 101, 83, 116, 114, 105, 110,
    103>>

\* '#/definitions/encryptableCompString'
REF_ENCRYPTABLE_COMP_STR ==
  <<35, 47, 100, 101, 102, 105, 110, 105, 116, 105, 111, 110, 115, 47, 101,
    110, 99, 114, 121, 112, 116, 97, 98, 108, 101, 67, 111, 109, 112, 83,
    116, 114, 105, 110, 103>>

\* 'number'
NUMBER_STR == <<110, 117, 109, 98, 101, 114>>

\* 'object'
OBJECT_STR == <<111, 98, 106, 101, 99, 116>>

\* 'array'
ARRAY_STR == <<97, 114, 114, 97, 121>>

\* '$ref'
REF_KEY == <<36, 114, 101, 102>>

\* 'properties'
PROPERTIES_KEY == <<112, 114, 111, 112, 101, 114, 116, 105, 101, 115>>

\* 'items'
ITEMS_KEY == <<105, 116, 101, 109, 115>>

\* 'minimum'
MINIMUM_KEY == <<109, 105, 110, 105, 109, 117, 109>>

\* 'multipleOf'
MULTIPLE_OF_KEY == <<109, 117, 108, 116, 105, 112, 108, 101, 79, 102>>

\* 'definitions'
DEFINITIONS_KEY == <<100, 101, 102, 105, 110, 105, 116, 105, 111, 110, 115>>

\* 'compress'
COMPRESS_KEY == <<99, 111, 109, 112, 114, 101, 115, 115>>

\* 'decimalPlaces'
DECIMAL_PLACES_KEY ==
  <<100, 101, 99, 105, 109, 97, 108, 80, 108, 97, 99, 101, 115>>

\* 'data:'
DATA_SCHEME == <<100, 97, 116, 97, 58>>

\* 'data:application/json;,'
DATA_URI_PREFIX ==
  <<100, 97, 116, 97, 58, 97, 112, 112, 108, 105, 99, 97, 116, 105, 111,
    110, 47, 106, 115, 111, 110, 59, 44>>

\* 'application/json'
MEDIA_TYPE_JSON ==
  <<97, 112, 112, 108, 105, 99, 97, 116, 105, 111, 110, 47, 106, 115, 111,
    110>>

\* 'base64'
BASE64_STR == <<98, 97, 115, 101, 54, 52>>

\* 'true'
TRUE_STR == <<116, 114, 117, 101>>

\* 'false'
FALSE_STR == <<102, 97, 108, 115, 101>>

\* const x = v, and Op of x: the value v is computed once and named
With(v, Op(_)) == CHOOSE y \in {Op(x) : x \in {v}} : TRUE

\* a sorts before b in Array.prototype.sort() without a comparator, which
\* compares strings by their code units
StrLess(a, b) ==
  With({i \in 1..Len(a) : i > Len(b) \/ a[i] # b[i]}, LAMBDA differ :
    IF differ = {} THEN Len(a) < Len(b)
    ELSE With(CHOOSE i \in differ : \A m \in differ : i <= m, LAMBDA first :
           first <= Len(b) /\ a[first] < b[first]))

\* Array.prototype.sort() on the (distinct) strings of S
RECURSIVE SortStrings(_)
SortStrings(strings) ==
  With(strings, LAMBDA S :
    IF S = {} THEN <<>>
    ELSE With(CHOOSE x \in S : \A y \in S \ {x} : StrLess(x, y), LAMBDA first :
           <<first>> \o SortStrings(S \ {first})))

\* String.prototype.indexOf / lastIndexOf of one character: the 1-based
\* position, 0 where the code has -1
IndexOf(s, c) ==
  IF \E i \in DOMAIN s : s[i] = c
    THEN CHOOSE i \in DOMAIN s : s[i] = c /\ \A m \in 1..(i - 1) : s[m] # c
    ELSE 0

LastIndexOf(s, c) ==
  IF \E i \in DOMAIN s : s[i] = c
    THEN CHOOSE i \in DOMAIN s : s[i] = c /\ \A m \in (i + 1)..Len(s) : s[m] # c
    ELSE 0

\* String.prototype.split on one character
RECURSIVE Split(_, _)
Split(s, sep) ==
  With(IndexOf(s, sep), LAMBDA at :
    IF at = 0 THEN <<s>>
    ELSE <<SubSeq(s, 1, at - 1)>> \o Split(SubSeq(s, at + 1, Len(s)), sep))

\* String.prototype.startsWith
StartsWith(s, prefix) ==
  Len(s) >= Len(prefix) /\ SubSeq(s, 1, Len(prefix)) = prefix

\* The decimal digits of a natural number, and digits as characters
RECURSIVE Digits(_)
Digits(n) == IF n < 10 THEN <<n>> ELSE Digits(n \div 10) \o <<n % 10>>

DigitChars(ds) == [i \in DOMAIN ds |-> 48 + ds[i]]

CharDigits(s) == [i \in DOMAIN s |-> s[i] - 48]

RECURSIVE DigitsValue(_)
DigitsValue(ds) ==
  IF ds = <<>> THEN 0 ELSE 10 * DigitsValue(SubSeq(ds, 1, Len(ds) - 1)) + ds[Len(ds)]

Zeros(n) == [i \in 1..n |-> 0]

\* A number is kept as its decimal expansion: sign, integer digits (no leading
\* zero but for 0 itself) and fraction digits (no trailing zero)
IntNum(n) == [neg |-> n < 0, int |-> Digits(IF n < 0 THEN -n ELSE n), frac |-> <<>>]

\* 10^-k
PowTen(k) ==
  IF k = 0 THEN IntNum(1)
  ELSE [neg |-> FALSE, int |-> <<0>>, frac |-> Zeros(k - 1) \o <<1>>]

Decimal(neg, int, frac) == [neg |-> neg, int |-> int, frac |-> frac]

IsInteger(x) == x.frac = <<>>

LeadingZeros(ds) ==
  IF \A i \in DOMAIN ds : ds[i] = 0 THEN Len(ds)
  ELSE (CHOOSE i \in DOMAIN ds : ds[i] # 0 /\ \A m \in 1..(i - 1) : ds[m] = 0) - 1

\* Number.prototype.toString: decimal notation down to 1e-6, exponential below
NumberToString(x) ==
  With(LeadingZeros(x.frac), LAMBDA lz :
  With(SubSeq(x.frac, lz + 1, Len(x.frac)), LAMBDA sig :
    (IF x.neg THEN <<45>> ELSE <<>>) \o
    (IF x.frac = <<>> THEN DigitChars(x.int)
     ELSE IF x.int = <<0>> /\ lz >= 6
       THEN (IF Len(sig) = 1 THEN DigitChars(sig)
             ELSE DigitChars(<<sig[1]>>) \o <<46>> \o DigitChars(Tail(sig)))
            \o <<101, 45>> \o DigitChars(Digits(lz + 1))
       ELSE DigitChars(x.int) \o <<46>> \o DigitChars(x.frac))))

\* The number a JSON number literal denotes (the literals NumberToString writes)
ParseNumber(lit) ==
  With(lit # <<>> /\ lit[1] = 45, LAMBDA neg :
  With(IF neg THEN Tail(lit) ELSE lit, LAMBDA body :
  With(IndexOf(body, 101), LAMBDA e :
  With(IndexOf(body, 46), LAMBDA dot :
    IF e # 0
      THEN Decimal(neg, <<0>>,
                   Zeros(DigitsValue(CharDigits(SubSeq(body, e + 2, Len(body)))) - 1)
                     \o CharDigits(SelectSeq(SubSeq(body, 1, e - 1), LAMBDA c : c # 46)))
    ELSE IF dot = 0 THEN Decimal(neg, CharDigits(body), <<>>)
    ELSE Decimal(neg, CharDigits(SubSeq(body, 1, dot - 1)),
                 CharDigits(SubSeq(body, dot + 1, Len(body))))))))

\* JSON values.  An object keeps its keys in insertion order.
Undefined ==
  [t |-> "undefined", kv |-> <<>>, items |-> <<>>, s |-> <<>>, n |-> IntNum(0), b |-> FALSE]

Obj(kv) == [Undefined EXCEPT !.t = "object", !.kv = kv]

Arr(items) == [Undefined EXCEPT !.t = "array", !.items = items]

Str(s) == [Undefined EXCEPT !.t = "string", !.s = s]

Num(n) == [Undefined EXCEPT !.t = "number", !.n = n]

Bool(b) == [Undefined EXCEPT !.t = "boolean", !.b = b]

KV(k, v) == [k |-> k, v |-> v]

\* Object.entries(o): the key-value pairs of an object, the indexed items of an array
Entries(o) ==
  IF o.t = "array" THEN [i \in DOMAIN o.items |-> KV(DigitChars(Digits(i - 1)), o.items[i])]
  ELSE o.kv

Keys(kv) == {kv[i].k : i \in DOMAIN kv}

\* o[k], undefined when o has no such property
Get(o, k) ==
  With(Entries(o), LAMBDA es :
    IF k \in Keys(es) THEN es[CHOOSE i \in DOMAIN es : es[i].k = k].v ELSE Undefined)

\* o[k] = v on the key-value pairs of o
Put(kv, k, v) ==
  IF k \in Keys(kv)
    THEN [i \in DOMAIN kv |-> IF kv[i].k = k THEN KV(k, v) ELSE kv[i]]
    ELSE Append(kv, KV(k, v))

\* { ...a, ...b }
RECURSIVE Spread(_, _)
Spread(a, b) == IF b = <<>> THEN a ELSE Spread(Put(a, Head(b).k, Head(b).v), Tail(b))

\* !!v
Truthy(v) ==
  CASE v.t = "undefined" -> FALSE
    [] v.t = "string" -> v.s # <<>>
    [] v.t = "number" -> v.n # IntNum(0)
    [] v.t = "boolean" -> v.b
    [] OTHER -> TRUE

\* v >= 0 for a number v
GreaterOrEqualZero(v) == v.t = "number" /\ ~v.n.neg

\* The outcome of a call that returns a value or throws
Threw == [ok |-> FALSE, val |-> Undefined]

Returned(v) == [ok |-> TRUE, val |-> v]

(***************************************************************************)
(* PSSignatureParams: the generators g, g_tilde and h, one h for every     *)
(* message, and the label they were generated from, if any.                *)
(***************************************************************************)
\* The labels of signature params
Labels == {[bytes |-> 1], [bytes |-> 2]}

NoLabel == [bytes |-> 0]

\* The i-th generator derived from a label; without a label the generators are
\* random
Generator(label, i) == [of |-> label, i |-> i]

\* psGenerateSignatureParams(numMessages, label)
psGenerateSignatureParams(numMessages, label) ==
  [g |-> Generator(label, 0 - 1), g_tilde |-> Generator(label, 0 - 2),
   h |-> [i \in 1..numMessages |-> Generator(label, i)]]

\* psAdaptSignatureParamsForMsgCount(params, label, newMsgCount): the generators
\* of the params up to the new count, and beyond them those derived from the label
psAdaptSignatureParamsForMsgCount(params, label, newMsgCount) ==
  [g |-> params.g, g_tilde |-> params.g_tilde,
   h |-> [i \in 1..newMsgCount |->
            IF i <= Len(params.h) THEN params.h[i] ELSE Generator(label, i)]]

\* new PSSignatureParams(params, label)
PSSignatureParams(params, label) == [value |-> params, label |-> label]

\* PSSignatureParams.PSSignatureParams_generate(numMessages, label)
PSSignatureParams_generate(numMessages, label) ==
  PSSignatureParams(psGenerateSignatureParams(numMessages, label), label)

supportedMessageCount(this) == Len(this.value.h)

\* h.slice(0, end) for an end of 0 or more
Slice(h, end) == SubSeq(h, 1, IF end < Len(h) THEN end ELSE Len(h))

\* adapt that keeps every generator when fewer are asked for
adaptKeepingAll(this, newMsgCount) ==
  IF this.label = NoLabel THEN Threw
  ELSE Returned(PSSignatureParams(
         IF newMsgCount <= supportedMessageCount(this) THEN this.value
         ELSE psAdaptSignatureParamsForMsgCount(this.value, this.label, newMsgCount),
         this.label))

\* adapt(newMsgCount)
adapt(this, newMsgCount) ==
  IF this.label = NoLabel THEN Threw
  ELSE Returned(PSSignatureParams(
         IF newMsgCount <= supportedMessageCount(this)
           THEN [g |-> this.value.g, g_tilde |-> this.value.g_tilde,
                 h |-> Slice(this.value.h, newMsgCount)]
           ELSE psAdaptSignatureParamsForMsgCount(this.value, this.label, newMsgCount),
         this.label))

\* getSigParamsOfRequiredSize(msgCount, labelOrParams): labelOrParams is a label
\* or a PSSignatureParams
getSigParamsOfRequiredSize(msgCount, labelOrParams) ==
  IF "value" \in DOMAIN labelOrParams
    THEN IF supportedMessageCount(labelOrParams) # msgCount
           THEN IF labelOrParams.label = NoLabel THEN Threw
                ELSE adapt(labelOrParams, msgCount)
           ELSE Returned(labelOrParams)
    ELSE Returned(PSSignatureParams_generate(msgCount, labelOrParams))

\* The params calls are made on: generated with and without a label for every
\* count of messages, and generated without a label and given one afterwards
Receivers ==
  {PSSignatureParams_generate(n, label) : n \in 0..MaxMsgs, label \in Labels \cup {NoLabel}}
    \cup {PSSignatureParams(psGenerateSignatureParams(n, NoLabel), label) :
            n \in 0..MaxMsgs, label \in Labels}

NoParams == [st |-> "none"]

\* A PSSignatureParams comes into being
NewParams == \E this \in Receivers :
  /\ sigParams = NoParams
  /\ sigParams' = [st |-> "made", this |-> this, was |-> this, call |-> "none"]
  /\ UNCHANGED <<accVars, histVars, witVars, schemaVars, credVars, presVars,
                 tsVars, quasiVars, proofVars, blindVars, jsonVars, concVars, typeVars>>

\* this.adapt(newMsgCount), which assigns nothing of this
Adapt == \E newMsgCount \in 0..(MaxMsgs + 1) :
  /\ sigParams # NoParams
  /\ sigParams.call = "none"
  /\ sigParams' = [sigParams EXCEPT !.call = "adapt"] @@
             [n |-> newMsgCount, out |-> adapt(sigParams.this, newMsgCount)]
  /\ UNCHANGED <<accVars, histVars, witVars, schemaVars, credVars, presVars,
                 tsVars, quasiVars, proofVars, blindVars, jsonVars, concVars, typeVars>>

\* adapt(newMsgCount) on the params that the adapt before returned
AdaptAdapted == \E newMsgCount \in 0..(MaxMsgs + 1) :
  /\ sigParams # NoParams
  /\ sigParams.call = "adapt"
  /\ sigParams.out.ok
  /\ sigParams' = [st |-> "made", this |-> sigParams.this, was |-> sigParams.was, call |-> "adapt adapt",
            a |-> sigParams.n, n |-> newMsgCount, out |-> adapt(sigParams.out.val, newMsgCount)]
  /\ UNCHANGED <<accVars, histVars, witVars, schemaVars, credVars, presVars,
                 tsVars, quasiVars, proofVars, blindVars, jsonVars, concVars, typeVars>>

\* PSSignatureParams.getSigParamsOfRequiredSize(msgCount, labelOrParams) with the
\* params or with their label
GetSigParamsOfRequiredSize == \E msgCount \in 0..(MaxMsgs + 1) : \E byLabel \in BOOLEAN :
  /\ sigParams # NoParams
  /\ sigParams.call = "none"
  /\ byLabel => sigParams.this.label # NoLabel
  /\ sigParams' = [sigParams EXCEPT !.call = "getSigParamsOfRequiredSize"] @@
             [n |-> msgCount, byLabel |-> byLabel,
              out |-> getSigParamsOfRequiredSize(
                        msgCount, IF byLabel THEN sigParams.this.label ELSE sigParams.this)]
  /\ UNCHANGED <<accVars, histVars, witVars, schemaVars, credVars, presVars,
                 tsVars, quasiVars, proofVars, blindVars, jsonVars, concVars, typeVars>>

(***************************************************************************)
(* CredentialSchema: conversion of a JSON-schema document to the internal  *)
(* schema, validation, flattening and the encoder.                         *)
(***************************************************************************)
\* ISchemaParsingOpts
DefaultSchemaParsingOpts ==
  [useDefaults |-> FALSE,
   defaultMinimumInteger |-> Decimal(TRUE, <<4, 2, 9, 4, 9, 6, 7, 2, 9, 5>>, <<>>),
   defaultDecimalPlaces |-> IntNum(0)]

\* { ...DefaultSchemaParsingOpts, ...parsingOpts } for a Partial<ISchemaParsingOpts>,
\* given as a record of sets: the empty set for a missing field
MergeParsingOpts(opts) ==
  LET pick(given, dflt) == IF given = {} THEN dflt ELSE CHOOSE x \in given : TRUE
  IN [useDefaults |-> pick(opts.useDefaults, DefaultSchemaParsingOpts.useDefaults),
      defaultMinimumInteger |->
        pick(opts.defaultMinimumInteger, DefaultSchemaParsingOpts.defaultMinimumInteger),
      defaultDecimalPlaces |->
        pick(opts.defaultDecimalPlaces, DefaultSchemaParsingOpts.defaultDecimalPlaces)]

\* The parsing options of a schema, passed again as constructor argument
AsPartial(pOpts) ==
  [useDefaults |-> {pOpts.useDefaults},
   defaultMinimumInteger |-> {pOpts.defaultMinimumInteger},
   defaultDecimalPlaces |-> {pOpts.defaultDecimalPlaces}]

IMPLICIT_FIELDS ==
  Obj(<<KV(CRYPTO_VERSION_STR, Obj(<<KV(TYPE_STR, Str(STR_TYPE))>>)),
        KV(SCHEMA_STR, Obj(<<KV(TYPE_STR, Str(STR_TYPE))>>))>>)

JSON_SCHEMA_OVERRIDE_DEFS ==
  Obj(<<KV(REF_ENCRYPTABLE_STR,
           Obj(<<KV(TYPE_STR, Str(STR_REV_TYPE)), KV(COMPRESS_KEY, Bool(FALSE))>>)),
        KV(REF_ENCRYPTABLE_COMP_STR,
           Obj(<<KV(TYPE_STR, Str(STR_REV_TYPE)), KV(COMPRESS_KEY, Bool(TRUE))>>))>>)

IGNORE_GENERIC_VALIDATION ==
  {CRYPTO_VERSION_STR,
   SCHEMA_STR,
   STATUS_STR \o <<46>> \o ID_STR,
   STATUS_STR \o <<46>> \o REV_CHECK_STR,
   STATUS_STR \o <<46>> \o REV_ID_STR}

POSSIBLE_TYPES ==
  {STR_TYPE, STR_REV_TYPE, POSITIVE_INT_TYPE, INT_TYPE, POSITIVE_NUM_TYPE, NUM_TYPE}

\* getDecimalPlaces: d.toString().match(/^0?\.(0*1$)/), the length of the group
getDecimalPlaces(d) ==
  With(NumberToString(d.n), LAMBDA str :
  With(IF str # <<>> /\ str[1] = 48 THEN Tail(str) ELSE str, LAMBDA afterZero :
    IF afterZero = <<>> \/ afterZero[1] # 46 THEN Threw
    ELSE With(Tail(afterZero), LAMBDA group :
           IF /\ group # <<>>
              /\ group[Len(group)] = 49
              /\ \A i \in 1..(Len(group) - 1) : group[i] = 48
             THEN Returned(Num(IntNum(Len(group))))
             ELSE Threw)))

\* parseIntegerType that takes a minimum of 0 for a possibly negative one
parseIntegerTypeStrictlyPositive(node, pOpts) ==
  With(Get(node, MINIMUM_KEY), LAMBDA minimum :
    IF ~pOpts.useDefaults /\ minimum = Undefined THEN Threw
    ELSE With(IF minimum # Undefined THEN minimum ELSE Num(pOpts.defaultMinimumInteger),
              LAMBDA min :
                IF GreaterOrEqualZero(min) /\ min.n # IntNum(0)
                  THEN Returned(Obj(<<KV(TYPE_STR, Str(POSITIVE_INT_TYPE))>>))
                  ELSE Returned(Obj(<<KV(TYPE_STR, Str(INT_TYPE)), KV(MINIMUM_KEY, min)>>))))

\* parseIntegerType that takes the default minimum under strict parsing too
parseIntegerTypeAlwaysDefault(node, pOpts) ==
  With(Get(node, MINIMUM_KEY), LAMBDA minimum :
    With(IF minimum # Undefined THEN minimum ELSE Num(pOpts.defaultMinimumInteger),
         LAMBDA min :
           IF GreaterOrEqualZero(min)
             THEN Returned(Obj(<<KV(TYPE_STR, Str(POSITIVE_INT_TYPE))>>))
             ELSE Returned(Obj(<<KV(TYPE_STR, Str(INT_TYPE)), KV(MINIMUM_KEY, min)>>))))

parseIntegerType(node, pOpts) ==
  With(Get(node, MINIMUM_KEY), LAMBDA minimum :
    IF ~pOpts.useDefaults /\ minimum = Undefined THEN Threw
    ELSE With(IF minimum # Undefined THEN minimum ELSE Num(pOpts.defaultMinimumInteger),
              LAMBDA min :
                IF GreaterOrEqualZero(min)
                  THEN Returned(Obj(<<KV(TYPE_STR, Str(POSITIVE_INT_TYPE))>>))
                  ELSE Returned(Obj(<<KV(TYPE_STR, Str(INT_TYPE)), KV(MINIMUM_KEY, min)>>))))

parseNumberType(node, pOpts) ==
  With(Get(node, MINIMUM_KEY), LAMBDA minimum :
  With(Get(node, MULTIPLE_OF_KEY), LAMBDA multipleOf :
    IF ~pOpts.useDefaults /\ (minimum = Undefined \/ multipleOf = Undefined) THEN Threw
    ELSE With(IF minimum # Undefined THEN minimum ELSE Num(pOpts.defaultMinimumInteger),
              LAMBDA min :
         With(IF multipleOf # Undefined THEN getDecimalPlaces(multipleOf)
              ELSE Returned(Num(pOpts.defaultDecimalPlaces)),
              LAMBDA d :
                IF ~d.ok THEN Threw
                ELSE IF GreaterOrEqualZero(min)
                  THEN Returned(Obj(<<KV(TYPE_STR, Str(POSITIVE_NUM_TYPE)),
                                     KV(DECIMAL_PLACES_KEY, d.val)>>))
                  ELSE Returned(Obj(<<KV(TYPE_STR, Str(NUM_TYPE)), KV(MINIMUM_KEY, min),
                                     KV(DECIMAL_PLACES_KEY, d.val)>>))))))

\* pointer.get(rootNode, ref.replace('#', '')): the node a JSON pointer names
RECURSIVE Descend(_, _)
Descend(node, tokens) ==
  IF tokens = <<>> THEN Returned(node)
  ELSE With(Get(node, Head(tokens)), LAMBDA child :
         IF child = Undefined THEN Threw ELSE Descend(child, Tail(tokens)))

PointerGet(rootNode, ref) ==
  With(IndexOf(ref, 35), LAMBDA hash :
  With(IF hash = 0 THEN ref
       ELSE SubSeq(ref, 1, hash - 1) \o SubSeq(ref, hash + 1, Len(ref)), LAMBDA ptr :
    IF ptr = <<>> THEN Returned(rootNode)
    ELSE IF ptr[1] # 47 THEN Threw
    ELSE Descend(rootNode, Tail(Split(ptr, 47)))))

\* convertToInternalSchemaObj(inputNode, parsingOpts, nodeKeyName, rootObject); the
\* node's key name only serves the error messages.  rootObject is the empty set
\* where the code passes undefined.
RECURSIVE convertToInternalSchemaObj(_, _, _)
convertToInternalSchemaObj(inputNode, pOpts, rootObject) ==
  With(Get(inputNode, REF_KEY), LAMBDA ref :
  With(IF rootObject = {} THEN inputNode ELSE CHOOSE r \in rootObject : TRUE,
       LAMBDA rootNode :
  With(IF ref.t = "string" THEN Get(JSON_SCHEMA_OVERRIDE_DEFS, ref.s) ELSE Undefined,
       LAMBDA overrideRef :
    IF Truthy(ref) /\ overrideRef # Undefined THEN Returned(overrideRef)
    ELSE With(IF Truthy(ref) THEN PointerGet(rootNode, ref.s) ELSE Returned(inputNode),
              LAMBDA pointed :
      IF ~pointed.ok THEN Threw
      ELSE With(pointed.val, LAMBDA node :
           With(Get(node, TYPE_STR), LAMBDA typ :
             CASE typ = Str(STR_TYPE) -> Returned(node)
               [] typ = Str(INT_TYPE) -> parseIntegerType(node, pOpts)
               [] typ = Str(NUMBER_STR) -> parseNumberType(node, pOpts)
               [] typ = Str(OBJECT_STR) ->
                    With(Get(node, PROPERTIES_KEY), LAMBDA properties :
                      IF properties = Undefined THEN Threw
                      ELSE With(Entries(properties), LAMBDA es :
                           With([i \in DOMAIN es |->
                                   convertToInternalSchemaObj(es[i].v, pOpts, {rootNode})],
                                LAMBDA result :
                                  IF \A i \in DOMAIN es : result[i].ok
                                    THEN Returned(Obj([i \in DOMAIN es |->
                                                         KV(es[i].k, result[i].val)]))
                                    ELSE Threw)))
               [] typ = Str(ARRAY_STR) ->
                    With(Get(node, ITEMS_KEY), LAMBDA items :
                      IF items.t # "array" THEN Threw
                      ELSE With([i \in DOMAIN items.items |->
                                   convertToInternalSchemaObj(items.items[i], pOpts,
                                                              {rootNode})],
                                LAMBDA result :
                                  IF \A i \in DOMAIN items.items : result[i].ok
                                    THEN Returned(Arr([i \in DOMAIN items.items |->
                                                         result[i].val]))
                                    ELSE Threw))
               [] OTHER -> Threw))))))

\* flatten of the flat package: the paths of obj joined with '.', each with the
\* value at the path; an empty object or array is a value
RECURSIVE FlatStep(_, _, _, _)
FlatStep(object, prev, output, i) ==
  IF i > Len(Entries(object)) THEN output
  ELSE With(Entries(object)[i], LAMBDA e :
       With(IF prev # <<>> THEN prev \o <<46>> \o e.k ELSE e.k, LAMBDA newKey :
       With(IF e.v.t \in {"object", "array"} /\ Entries(e.v) # <<>>
              THEN FlatStep(e.v, newKey, output, 1)
              ELSE Put(output, newKey, e.v),
            LAMBDA next : FlatStep(object, prev, next, i + 1))))

Flat(obj) == FlatStep(obj, <<>>, <<>>, 1)

\* The loop of flattenTill2ndLastKey: flattened[name][t] = temp[k], where name is
\* k up to its last '.' and t the rest
RECURSIVE GroupByName(_, _, _)
GroupByName(temp, grouped, i) ==
  IF i > Len(temp) THEN grouped
  ELSE With(temp[i].k, LAMBDA k :
       With(LastIndexOf(k, 46), LAMBDA pos :
       With(SubSeq(k, 1, pos - 1), LAMBDA name :
       With(IF name \in Keys(grouped) THEN Get(Obj(grouped), name).kv ELSE <<>>,
            LAMBDA sofar :
       With(Put(grouped, name, Obj(Put(sofar, SubSeq(k, pos + 1, Len(k)), temp[i].v))),
            LAMBDA next : GroupByName(temp, next, i + 1))))))

\* flattenTill2ndLastKey that leaves the names in the order of the object's keys
flattenTill2ndLastKeyUnsorted(obj) ==
  With(GroupByName(Flat(obj), <<>>, 1), LAMBDA grouped :
    <<[i \in DOMAIN grouped |-> grouped[i].k], [i \in DOMAIN grouped |-> grouped[i].v]>>)

\* flattenTill2ndLastKey: [names, values] with the names sorted
flattenTill2ndLastKey(obj) ==
  With(GroupByName(Flat(obj), <<>>, 1), LAMBDA grouped :
  With(SortStrings(Keys(grouped)), LAMBDA keys :
    <<keys, [i \in DOMAIN keys |-> Get(Obj(grouped), keys[i])]>>))

\* flattenSchemaObj that puts the implicit fields before the sorted names
flattenSchemaObjImplicitFirst(schema) ==
  With(flattenTill2ndLastKey(schema), LAMBDA rest :
    <<(<<CRYPTO_VERSION_STR, SCHEMA_STR>>) \o rest[1],
      (<<Get(IMPLICIT_FIELDS, CRYPTO_VERSION_STR), Get(IMPLICIT_FIELDS, SCHEMA_STR)>>)
        \o rest[2]>>)

\* flattenSchemaObj that leaves the implicit fields out
flattenSchemaObjWithoutImplicit(schema) == flattenTill2ndLastKey(schema)

flattenSchemaObj(schema) ==
  flattenTill2ndLastKey(Obj(Spread(IMPLICIT_FIELDS.kv, Entries(schema))))

\* validateStringType that checks the presence of the field only
validateStringTypePresenceOnly(schema, fieldName) == Truthy(Get(schema, fieldName))

\* validateStringType: TRUE when it does not throw
validateStringType(schema, fieldName) ==
  /\ Truthy(Get(schema, fieldName))
  /\ Get(Get(schema, fieldName), TYPE_STR) = Str(STR_TYPE)

\* isPositiveInteger of util
isPositiveInteger(v) == v.t = "number" /\ IsInteger(v.n) /\ ~v.n.neg

\* Number.isInteger
NumberIsInteger(v) == v.t = "number" /\ IsInteger(v.n)

\* validateGeneric that checks the type of a flattened value and not its parameters
validValueTypeOnly(value) ==
  With(Get(value, TYPE_STR), LAMBDA type :
    /\ type # Undefined
    /\ type.t = "string" /\ type.s \in POSSIBLE_TYPES)

\* The checks validateGeneric makes of one flattened value: TRUE when none throws
validValue(value) ==
  With(Get(value, TYPE_STR), LAMBDA type :
    /\ type # Undefined
    /\ type.t = "string" /\ type.s \in POSSIBLE_TYPES
    /\ CASE type.s = STR_REV_TYPE -> Get(value, COMPRESS_KEY).t = "boolean"
         [] type.s = INT_TYPE -> NumberIsInteger(Get(value, MINIMUM_KEY))
         [] type.s = POSITIVE_NUM_TYPE -> isPositiveInteger(Get(value, DECIMAL_PLACES_KEY))
         [] type.s = NUM_TYPE -> /\ NumberIsInteger(Get(value, MINIMUM_KEY))
                                 /\ isPositiveInteger(Get(value, DECIMAL_PLACES_KEY))
         [] OTHER -> TRUE)

\* validateGeneric: TRUE when it does not throw
validateGeneric(schema, ignoreKeys) ==
  With(flattenSchemaObj(schema), LAMBDA fl :
    \A i \in DOMAIN fl[1] : fl[1][i] \in ignoreKeys \/ validValue(fl[2][i]))

\* validate: TRUE when it does not throw
validate(schema) ==
  /\ Get(schema, SUBJECT_STR) # Undefined
  /\ With(Get(schema, STATUS_STR), LAMBDA schemaStatus :
       schemaStatus # Undefined =>
         /\ validateStringType(schemaStatus, TYPE_STR)
         /\ validateStringType(schemaStatus, ID_STR)
         /\ validateStringType(schemaStatus, REV_CHECK_STR)
         /\ validateStringType(schemaStatus, REV_ID_STR))
  /\ validateGeneric(schema, IGNORE_GENERIC_VALIDATION)

\* The encode function initEncoder picks for a flattened value
EncodeFunc(name, args) == [f |-> name, args |-> args]

defaultEncoder == EncodeFunc("defaultEncodeFunc", <<>>)

encoderFor(value) ==
  With(Get(value, TYPE_STR), LAMBDA type :
    CASE type = Str(STR_REV_TYPE) ->
           EncodeFunc("reversibleEncoderString", <<Get(value, COMPRESS_KEY)>>)
      [] type = Str(POSITIVE_INT_TYPE) -> EncodeFunc("positiveIntegerEncoder", <<>>)
      [] type = Str(INT_TYPE) -> EncodeFunc("integerEncoder", <<Get(value, MINIMUM_KEY)>>)
      [] type = Str(POSITIVE_NUM_TYPE) ->
           EncodeFunc("positiveDecimalNumberEncoder", <<Get(value, DECIMAL_PLACES_KEY)>>)
      [] type = Str(NUM_TYPE) ->
           EncodeFunc("decimalNumberEncoder",
                      <<Get(value, MINIMUM_KEY), Get(value, DECIMAL_PLACES_KEY)>>)
      [] OTHER -> defaultEncoder)

\* initEncoder that hands the default encoder to the Encoder whatever useDefaults is
initEncoderAlwaysDefault(schema, pOpts) ==
  With(flattenSchemaObj(schema), LAMBDA fl :
    [encoders |->
       [nm \in {fl[1][i] : i \in DOMAIN fl[1]} \cup {CRYPTO_VERSION_STR, SCHEMA_STR} |->
          IF nm \in {CRYPTO_VERSION_STR, SCHEMA_STR} THEN defaultEncoder
          ELSE encoderFor(fl[2][CHOOSE i \in DOMAIN fl[1] : fl[1][i] = nm])],
     defaultEncoder |-> {defaultEncoder}])

\* initEncoder: the Encoder of a schema, a map from names to encode functions
\* and the default encoder when parsingOptions.useDefaults is set
initEncoder(schema, pOpts) ==
  With(flattenSchemaObj(schema), LAMBDA fl :
    [encoders |->
       [nm \in {fl[1][i] : i \in DOMAIN fl[1]} \cup {CRYPTO_VERSION_STR, SCHEMA_STR} |->
          IF nm \in {CRYPTO_VERSION_STR, SCHEMA_STR} THEN defaultEncoder
          ELSE encoderFor(fl[2][CHOOSE i \in DOMAIN fl[1] : fl[1][i] = nm])],
     defaultEncoder |-> IF pOpts.useDefaults THEN {defaultEncoder} ELSE {}])

\* Encoder.encodeMessage(name, value): the encode function applied to the value of
\* an attribute, the one set for the name or else the default encoder; none when
\* there is neither and the call throws
encodeMessage(encoder, name) ==
  IF name \in DOMAIN encoder.encoders THEN {encoder.encoders[name]}
  ELSE encoder.defaultEncoder

\* No CredentialSchema object: not constructed yet, or the constructor threw; it
\* has no fields to read
NoSchema(st) == [st |-> st]

\* new CredentialSchema(jsonSchema, parsingOpts)
CredentialSchema(doc, opts) ==
  With(MergeParsingOpts(opts), LAMBDA pOpts :
  With(convertToInternalSchemaObj(doc, pOpts, {}), LAMBDA schema :
    IF schema.ok /\ validate(schema.val)
      THEN [st |-> "built", schema |-> schema.val, jsonSchema |-> doc,
            parsingOptions |-> pOpts, encoder |-> initEncoder(schema.val, pOpts),
            version |-> VERSION]
      ELSE NoSchema("threw")))

\* flatten()
flatten(c) == flattenSchemaObj(c.schema)

\* A ValueTypes object: the ValueType and the parameters that go with it
ValueTypes(type, params) == [type |-> type, params |-> params]

\* typeOfValue: the ValueTypes of a flattened value; it throws on a type it does
\* not know, and on undefined, which has no type to read
typeOfValue(value) ==
  IF value = Undefined THEN Threw
  ELSE With(Get(value, TYPE_STR), LAMBDA typ :
    CASE typ = Str(STR_TYPE) -> Returned(ValueTypes("Str", <<>>))
      [] typ = Str(STR_REV_TYPE) ->
           Returned(ValueTypes("RevStr", <<KV(COMPRESS_KEY, Get(value, COMPRESS_KEY))>>))
      [] typ = Str(POSITIVE_INT_TYPE) -> Returned(ValueTypes("PositiveInteger", <<>>))
      [] typ = Str(INT_TYPE) ->
           Returned(ValueTypes("Integer", <<KV(MINIMUM_KEY, Get(value, MINIMUM_KEY))>>))
      [] typ = Str(POSITIVE_NUM_TYPE) ->
           Returned(ValueTypes("PositiveNumber",
                               <<KV(DECIMAL_PLACES_KEY, Get(value, DECIMAL_PLACES_KEY))>>))
      [] typ = Str(NUM_TYPE) ->
           Returned(ValueTypes("Number",
                               <<KV(MINIMUM_KEY, Get(value, MINIMUM_KEY)),
                                 KV(DECIMAL_PLACES_KEY, Get(value, DECIMAL_PLACES_KEY))>>))
      [] OTHER -> Threw)

\* typeOfName that types the first flattened value when the name is not listed
typeOfNameOfFirst(name, flattenedSchema) ==
  With(IndexOf(flattenedSchema[1], name), LAMBDA nameIdx :
    typeOfValue(flattenedSchema[2][IF nameIdx = 0 THEN 1 ELSE nameIdx]))

\* typeOfName(name, flattenedSchema): values[names.indexOf(name)] is undefined
\* for a name that is not listed, and the error of typeOfValue is thrown on
typeOfName(name, flattenedSchema) ==
  With(IndexOf(flattenedSchema[1], name), LAMBDA nameIdx :
    typeOfValue(IF nameIdx = 0 THEN Undefined ELSE flattenedSchema[2][nameIdx]))

NotTyped == [st |-> "none"]

\* The characters of a text: those of its pieces in order
RECURSIVE Concat(_)
Concat(pieces) ==
  With(pieces, LAMBDA ps :
    IF ps = <<>> THEN <<>>
    ELSE IF Len(ps) = 1 THEN ps[1]
    ELSE With(Len(ps) \div 2, LAMBDA half :
           Concat(SubSeq(ps, 1, half)) \o Concat(SubSeq(ps, half + 1, Len(ps)))))

\* The escapes JSON.stringify writes in a string ('"' and '\'), and their reading
EscapeString(s) ==
  Concat([i \in DOMAIN s |-> IF s[i] \in {34, 92} THEN <<92, s[i]>> ELSE <<s[i]>>])

RECURSIVE UnescapeString(_)
UnescapeString(s) ==
  IF s = <<>> THEN <<>>
  ELSE IF Head(s) = 92 /\ Len(s) >= 2 THEN <<s[2]>> \o UnescapeString(Tail(Tail(s)))
  ELSE <<Head(s)>> \o UnescapeString(Tail(s))

Quote(s) == <<34>> \o EscapeString(s) \o <<34>>

Unquote(piece) == UnescapeString(SubSeq(piece, 2, Len(piece) - 1))

\* JSON.stringify(v): a property whose value is undefined is left out
RECURSIVE JSONStringify(_)
JSONStringify(v) ==
  CASE v.t = "object" ->
         With(SelectSeq(v.kv, LAMBDA e : e.v.t # "undefined"), LAMBDA present :
           <<(<<123>>)>>
             \o Concat([i \in DOMAIN present |->
                          (IF i > 1 THEN <<(<<44>>)>> ELSE <<>>)
                            \o <<Quote(present[i].k), <<58>>>>
                            \o JSONStringify(present[i].v)])
             \o <<(<<125>>)>>)
    [] v.t = "array" ->
         <<(<<91>>)>>
           \o Concat([i \in DOMAIN v.items |->
                        (IF i > 1 THEN <<(<<44>>)>> ELSE <<>>) \o JSONStringify(v.items[i])])
           \o <<(<<93>>)>>
    [] v.t = "string" -> <<Quote(v.s)>>
    [] v.t = "number" -> <<NumberToString(v.n)>>
    [] v.t = "boolean" -> <<IF v.b THEN TRUE_STR ELSE FALSE_STR>>
    [] OTHER -> <<>>

\* JSON.parse of the pieces from position i on: the value and the position after it
RECURSIVE ParseValue(_, _)
RECURSIVE ParseMembers(_, _, _)
RECURSIVE ParseElements(_, _, _)
ParseValue(toks, i) ==
  CASE toks[i] = <<123>> ->
         IF toks[i + 1] = <<125>> THEN [v |-> Obj(<<>>), next |-> i + 2]
         ELSE ParseMembers(toks, i + 1, <<>>)
    [] toks[i] = <<91>> ->
         IF toks[i + 1] = <<93>> THEN [v |-> Arr(<<>>), next |-> i + 2]
         ELSE ParseElements(toks, i + 1, <<>>)
    [] toks[i][1] = 34 -> [v |-> Str(Unquote(toks[i])), next |-> i + 1]
    [] toks[i] = TRUE_STR -> [v |-> Bool(TRUE), next |-> i + 1]
    [] toks[i] = FALSE_STR -> [v |-> Bool(FALSE), next |-> i + 1]
    [] OTHER -> [v |-> Num(ParseNumber(toks[i])), next |-> i + 1]

ParseMembers(toks, i, kv) ==
  With(ParseValue(toks, i + 2), LAMBDA value :
  With(Put(kv, Unquote(toks[i]), value.v), LAMBDA kv2 :
    IF toks[value.next] = <<44>> THEN ParseMembers(toks, value.next + 1, kv2)
    ELSE [v |-> Obj(kv2), next |-> value.next + 1]))

ParseElements(toks, i, items) ==
  With(ParseValue(toks, i), LAMBDA value :
  With(Append(items, value.v), LAMBDA items2 :
    IF toks[value.next] = <<44>> THEN ParseElements(toks, value.next + 1, items2)
    ELSE [v |-> Arr(items2), next |-> value.next + 1]))

JSONParse(text) ==
  With(SelectSeq(text, LAMBDA piece : piece # <<>>), LAMBDA toks : ParseValue(toks, 1).v)

\* encodeURIComponent: every character but A-Z a-z 0-9 - _ . ! ~ * ' ( ) becomes
\* %XX (the characters of the model are ASCII)
Unreserved(c) ==
  \/ c \in 65..90
  \/ c \in 97..122
  \/ c \in 48..57
  \/ c \in {45, 95, 46, 33, 126, 42, 39, 40, 41}

HexDigit(d) == IF d < 10 THEN 48 + d ELSE 55 + d

HexValue(c) == IF c \in 48..57 THEN c - 48 ELSE IF c \in 65..70 THEN c - 55 ELSE c - 87

\* encodeURIComponent of the characters of a piece
EncodeChars(s) ==
  Concat([i \in DOMAIN s |->
            IF Unreserved(s[i]) THEN <<s[i]>>
            ELSE <<37, HexDigit(s[i] \div 16), HexDigit(s[i] % 16)>>])

encodeURIComponent(text) == [i \in DOMAIN text |-> EncodeChars(text[i])]

RECURSIVE DecodeChars(_)
DecodeChars(s) ==
  IF s = <<>> THEN <<>>
  ELSE IF Head(s) = 37 /\ Len(s) >= 3
    THEN <<16 * HexValue(s[2]) + HexValue(s[3])>> \o DecodeChars(SubSeq(s, 4, Len(s)))
    ELSE <<Head(s)>> \o DecodeChars(Tail(s))

decodeURIComponent(text) == [i \in DOMAIN text |-> DecodeChars(text[i])]

\* embedded.replace(/\r?\n/g, '')
RECURSIVE StripChars(_)
StripChars(s) ==
  IF s = <<>> THEN <<>>
  ELSE IF Head(s) = 10 THEN StripChars(Tail(s))
  ELSE IF Head(s) = 13 /\ Len(s) >= 2 /\ s[2] = 10 THEN StripChars(Tail(Tail(s)))
  ELSE <<Head(s)>> \o StripChars(Tail(s))

StripNewLines(text) ==
  [i \in DOMAIN text |-> IF IndexOf(text[i], 10) = 0 THEN text[i] ELSE StripChars(text[i])]

\* No object returned by toJSON yet
NoJSON == [st |-> "none"]

\* toJSON()
toJSON(c) ==
  [st |-> "made",
   id |-> <<DATA_URI_PREFIX>> \o encodeURIComponent(JSONStringify(c.jsonSchema)),
   type |-> SCHEMA_TYPE_STR,
   parsingOptions |-> c.parsingOptions,
   version |-> c.version]

\* extractJsonSchemaFromEmbedded(embedded): a piece of the text holds no part of
\* two tokens, so the first comma is found in the first piece that has one
extractJsonSchemaFromEmbedded(embedded) ==
  IF ~StartsWith(Concat(embedded), DATA_SCHEME) THEN Threw
  ELSE
  With(StripNewLines(embedded), LAMBDA dataUri :
  With({i \in DOMAIN dataUri : IndexOf(dataUri[i], 44) # 0}, LAMBDA withComma :
    IF withComma = {} THEN Threw
    ELSE With(CHOOSE i \in withComma : \A m \in withComma : i <= m, LAMBDA piece :
         With(IndexOf(dataUri[piece], 44), LAMBDA firstComma :
         With(Concat(SubSeq(dataUri, 1, piece - 1))
                \o SubSeq(dataUri[piece], 1, firstComma - 1), LAMBDA before :
         With(Split(SubSeq(before, Len(DATA_SCHEME) + 1, Len(before)), 59), LAMBDA meta :
           IF meta[1] # MEDIA_TYPE_JSON THEN Threw
           ELSE IF \E i \in DOMAIN meta : meta[i] = BASE64_STR THEN Threw
           ELSE Returned(JSONParse(decodeURIComponent(
                  <<SubSeq(dataUri[piece], firstComma + 1, Len(dataUri[piece]))>>
                    \o SubSeq(dataUri, piece + 1, Len(dataUri)))))))))))

\* fromJSON that keeps the version of the class
fromJSONKeepingClassVersion(obj) ==
  IF obj.type # SCHEMA_TYPE_STR THEN NoSchema("threw")
  ELSE With(extractJsonSchemaFromEmbedded(obj.id), LAMBDA doc :
         IF ~doc.ok THEN NoSchema("threw")
         ELSE CredentialSchema(doc.val, AsPartial(obj.parsingOptions)))

\* fromJSON(j)
fromJSON(obj) ==
  IF obj.type # SCHEMA_TYPE_STR THEN NoSchema("threw")
  ELSE With(extractJsonSchemaFromEmbedded(obj.id), LAMBDA doc :
         IF ~doc.ok THEN NoSchema("threw")
         ELSE With(CredentialSchema(doc.val, AsPartial(obj.parsingOptions)),
                   LAMBDA credSchema :
                     IF credSchema.st # "built" THEN credSchema
                     ELSE [credSchema EXCEPT !.version = obj.version]))

(***************************************************************************)
(* The JSON-schema documents and parsing options the schema is built from. *)
(***************************************************************************)
\* '$schema'
META_SCHEMA_STR == <<36, 115, 99, 104, 101, 109, 97>>

\* 'http://json-schema.org/draft-07/schema#'
DRAFT_07 ==
  <<104, 116, 116, 112, 58, 47, 47, 106, 115, 111, 110, 45, 115, 99, 104,
    101, 109, 97, 46, 111, 114, 103, 47, 100, 114, 97, 102, 116, 45, 48,
    55, 47, 115, 99, 104, 101, 109, 97, 35>>

\* 'name'
NAME_KEY == <<110, 97, 109, 101>>

\* 'SSN'
SSN_KEY == <<83, 83, 78>>

\* 'issuer'
ISSUER_KEY == <<105, 115, 115, 117, 101, 114>>

\* 'aud'
AUD_KEY == <<97, 117, 100>>

\* 'encryptableString'
ENCRYPTABLE_STR ==
  <<101, 110, 99, 114, 121, 112, 116, 97, 98, 108, 101, 83, 116, 114, 105,
    110, 103>>

\* 'encryptableCompString'
ENCRYPTABLE_COMP_STR ==
  <<101, 110, 99, 114, 121, 112, 116, 97, 98, 108, 101, 67, 111, 109, 112,
    83, 116, 114, 105, 110, 103>>

\* 'score'
SCORE_KEY == <<115, 99, 111, 114, 101>>

\* '#/definitions/score'
REF_SCORE ==
  <<35, 47, 100, 101, 102, 105, 110, 105, 116, 105, 111, 110, 115, 47, 115,
    99, 111, 114, 101>>

\* '#/definitions/missing'
REF_MISSING ==
  <<35, 47, 100, 101, 102, 105, 110, 105, 116, 105, 111, 110, 115, 47, 109,
    105, 115, 115, 105, 110, 103>>

\* 'boolean'
BOOLEAN_STR == <<98, 111, 111, 108, 101, 97, 110>>

\* 'title'
TITLE_KEY == <<116, 105, 116, 108, 101>>

\* '91.329.68'
OTHER_VERSION == <<57, 49, 46, 51, 50, 57, 46, 54, 56>>

\* Leaf nodes in JSON-schema syntax
TypeNode(type) == Obj(<<KV(TYPE_STR, Str(type))>>)

StringNode == TypeNode(STR_TYPE)

\* { type: 'integer', minimum? }: minimum is the empty set or one number
IntegerNode(minimum) ==
  Obj(<<KV(TYPE_STR, Str(INT_TYPE))>>
        \o (IF minimum = {} THEN <<>>
            ELSE <<KV(MINIMUM_KEY, Num(CHOOSE m \in minimum : TRUE))>>))

\* { type: 'number', minimum?, multipleOf? }
NumberNode(minimum, multipleOf) ==
  Obj(<<KV(TYPE_STR, Str(NUMBER_STR))>>
        \o (IF minimum = {} THEN <<>>
            ELSE <<KV(MINIMUM_KEY, Num(CHOOSE m \in minimum : TRUE))>>)
        \o (IF multipleOf = {} THEN <<>>
            ELSE <<KV(MULTIPLE_OF_KEY, Num(CHOOSE m \in multipleOf : TRUE))>>))

RefNode(ref) == Obj(<<KV(REF_KEY, Str(ref))>>)

ObjectNode(properties) ==
  Obj(<<KV(TYPE_STR, Str(OBJECT_STR)), KV(PROPERTIES_KEY, Obj(properties))>>)

ArrayNode(items) ==
  Obj(<<KV(TYPE_STR, Str(ARRAY_STR)), KV(ITEMS_KEY, Arr(items))>>)

\* The minimums and the multipleOf values of the documents: 0, 3, -100 and -1.5;
\* 10^-k and 0.5
Minimums == {IntNum(0), IntNum(3), IntNum(0 - 100), Decimal(TRUE, <<1>>, <<5>>)}

MultipleOfs == {PowTen(k) : k \in 0..MaxPlaces} \cup {Decimal(FALSE, <<0>>, <<5>>)}

Optional(S) == {{}} \cup {{x} : x \in S}

IntegerNodes == {IntegerNode(m) : m \in Optional(Minimums)}

NumberNodes ==
  {NumberNode(m, d) : m \in Optional({IntNum(0), IntNum(0 - 100)}), d \in Optional(MultipleOfs)}

LeafNodes ==
  {StringNode, Obj(<<KV(TYPE_STR, Str(STR_TYPE)), KV(TITLE_KEY, Str(NAME_KEY))>>)}
    \cup IntegerNodes
    \cup NumberNodes
    \cup {RefNode(REF_ENCRYPTABLE_STR), RefNode(REF_ENCRYPTABLE_COMP_STR),
          RefNode(REF_SCORE), RefNode(REF_MISSING)}
    \cup {TypeNode(BOOLEAN_STR), Obj(<<>>)}

SomeLeafNodes ==
  {StringNode, IntegerNode({IntNum(0 - 100)}),
   NumberNode({IntNum(0 - 100)}, {PowTen(2)}), RefNode(REF_ENCRYPTABLE_STR)}

FewLeafNodes == {StringNode, IntegerNode({IntNum(3)})}

\* The credentialSubject nodes: objects of one and two properties, a nested
\* object, arrays of objects and of leaves, objects without properties
SubjectNodes ==
  {ObjectNode(<<KV(NAME_KEY, l)>>) : l \in LeafNodes}
    \cup {ObjectNode(<<KV(NAME_KEY, l1), KV(SSN_KEY, l2)>>) :
            l1 \in SomeLeafNodes, l2 \in SomeLeafNodes}
    \cup {ObjectNode(<<KV(NAME_KEY, StringNode),
                       KV(SSN_KEY, ObjectNode(<<KV(SSN_KEY, l), KV(NAME_KEY, StringNode)>>))>>) :
            l \in SomeLeafNodes}
    \cup UNION {{ArrayNode([i \in 1..n |-> ObjectNode(<<KV(NAME_KEY, items[i])>>)]) :
                   items \in [1..n -> FewLeafNodes]} : n \in 1..MaxItems}
    \cup {ObjectNode(<<KV(NAME_KEY, ArrayNode(<<StringNode, IntegerNode({IntNum(0)})>>))>>),
          ObjectNode(<<>>),
          TypeNode(OBJECT_STR)}

\* statusAsJsonSchema()
statusAsJsonSchema ==
  ObjectNode(<<KV(ID_STR, StringNode), KV(TYPE_STR, StringNode),
               KV(REV_CHECK_STR, StringNode), KV(REV_ID_STR, StringNode)>>)

\* The credentialStatus properties: none, the one of statusAsJsonSchema, one
\* without revocationId, one with an id that is not a string
StatusProperties ==
  {<<>>,
   <<KV(STATUS_STR, statusAsJsonSchema)>>,
   <<KV(STATUS_STR, ObjectNode(<<KV(ID_STR, StringNode), KV(TYPE_STR, StringNode),
                                 KV(REV_CHECK_STR, StringNode)>>))>>,
   <<KV(STATUS_STR, ObjectNode(<<KV(ID_STR, IntegerNode({IntNum(0)})),
                                 KV(TYPE_STR, StringNode),
                                 KV(REV_CHECK_STR, StringNode),
                                 KV(REV_ID_STR, StringNode)>>))>>}

\* Other top level properties: none, one that sorts after the implicit fields,
\* one that sorts before them, a leaf and an object with the name of an implicit
\* field
TopLevelProperties ==
  {<<>>,
   <<KV(ISSUER_KEY, ObjectNode(<<KV(NAME_KEY, StringNode)>>))>>,
   <<KV(AUD_KEY, StringNode)>>,
   <<KV(CRYPTO_VERSION_STR, IntegerNode({IntNum(0)}))>>,
   <<KV(SCHEMA_STR, ObjectNode(<<KV(NAME_KEY, StringNode)>>))>>}

\* JSON_SCHEMA_CUSTOM_DEFS and a definition of the document's own
Definitions ==
  Obj(<<KV(ENCRYPTABLE_STR, StringNode),
        KV(ENCRYPTABLE_COMP_STR, StringNode),
        KV(SCORE_KEY, NumberNode({IntNum(0 - 100)}, {PowTen(1)}))>>)

\* An IJsonSchema document
JsonSchemaOf(properties) ==
  Obj(<<KV(META_SCHEMA_STR, Str(DRAFT_07)),
        KV(TYPE_STR, Str(OBJECT_STR)),
        KV(PROPERTIES_KEY, Obj(properties)),
        KV(DEFINITIONS_KEY, Definitions)>>)

JsonSchemas ==
  {JsonSchemaOf(<<KV(SUBJECT_STR, subject)>> \o status \o top) :
     subject \in SubjectNodes, status \in StatusProperties, top \in TopLevelProperties}
    \cup {JsonSchemaOf(status) : status \in StatusProperties}
    \cup {Obj(<<>>), StringNode}

\* The parsing options given to the constructor: none, useDefaults, and
\* useDefaults with defaults of the caller's
ParsingOptions ==
  {[useDefaults |-> {}, defaultMinimumInteger |-> {}, defaultDecimalPlaces |-> {}],
   [useDefaults |-> {TRUE}, defaultMinimumInteger |-> {}, defaultDecimalPlaces |-> {}],
   [useDefaults |-> {TRUE}, defaultMinimumInteger |-> {IntNum(0 - 10)},
    defaultDecimalPlaces |-> {IntNum(2)}]}

\* The documents of the parsing specification: a credentialSubject of one leaf,
\* with every multipleOf 10^-k up to MaxExponent, and a credentialStatus
ParseMultipleOfs == {PowTen(k) : k \in 0..MaxExponent} \cup {Decimal(FALSE, <<0>>, <<5>>)}

ParseLeafNodes ==
  {StringNode}
    \cup IntegerNodes
    \cup {NumberNode(m, d) : m \in Optional({IntNum(0), IntNum(0 - 100)}),
                             d \in Optional(ParseMultipleOfs)}
    \cup {RefNode(REF_ENCRYPTABLE_STR), RefNode(REF_MISSING), TypeNode(BOOLEAN_STR), Obj(<<>>)}

StatusFields == <<ID_STR, TYPE_STR, REV_CHECK_STR, REV_ID_STR>>

\* A credentialStatus whose field at `at` is left out (node = {}) or is the node
StatusWith(at, node) ==
  ObjectNode(Concat([i \in DOMAIN StatusFields |->
                      IF i # at THEN <<KV(StatusFields[i], StringNode)>>
                      ELSE IF node = {} THEN <<>>
                      ELSE <<KV(StatusFields[i], CHOOSE n \in node : TRUE)>>]))

\* No credentialStatus, the one of statusAsJsonSchema, one with a field missing,
\* one with a field that is not a string
ParseStatuses ==
  {<<>>, <<KV(STATUS_STR, statusAsJsonSchema)>>}
    \cup {<<KV(STATUS_STR, StatusWith(at, node))>> :
            at \in DOMAIN StatusFields, node \in {{}, {IntegerNode({IntNum(0)})}}}

ParseSchemas ==
  {JsonSchemaOf(<<KV(SUBJECT_STR, ObjectNode(<<KV(NAME_KEY, l)>>))>> \o status) :
     l \in ParseLeafNodes, status \in ParseStatuses}
    \cup {JsonSchemaOf(status) : status \in ParseStatuses}

\* Parsing options: strict, defaults of the class, defaults of the caller with a
\* negative and with a positive minimum, and a default minimum that is no integer
ParseOptions ==
  ParsingOptions
    \cup {[useDefaults |-> {FALSE}, defaultMinimumInteger |-> {IntNum(0 - 10)},
           defaultDecimalPlaces |-> {IntNum(2)}],
          [useDefaults |-> {TRUE}, defaultMinimumInteger |-> {IntNum(5)},
           defaultDecimalPlaces |-> {IntNum(1)}],
          [useDefaults |-> {TRUE}, defaultMinimumInteger |-> {Decimal(TRUE, <<1>>, <<5>>)},
           defaultDecimalPlaces |-> {}]}

\* The versions a caller writes in the JSON of a schema
Versions == {OTHER_VERSION}

\* The same document with the keys of every object in another order
Reversed(s) == [i \in DOMAIN s |-> s[Len(s) + 1 - i]]

Rotated(s) == IF s = <<>> THEN s ELSE Tail(s) \o <<Head(s)>>

Orders == {"reversed", "rotated"}

RECURSIVE Reordered(_, _)
Reordered(v, order) ==
  CASE v.t = "object" ->
         With(IF order = "reversed" THEN Reversed(v.kv) ELSE Rotated(v.kv), LAMBDA kv :
           Obj([i \in DOMAIN kv |-> KV(kv[i].k, Reordered(kv[i].v, order))]))
    [] v.t = "array" -> Arr([i \in DOMAIN v.items |-> Reordered(v.items[i], order)])
    [] OTHER -> v

(***************************************************************************)
(* Operations on a credential schema.                                      *)
(***************************************************************************)
\* new CredentialSchema(jsonSchema, parsingOpts)
Construct ==
  /\ cs.st = "none"
  /\ cs' = CredentialSchema(jsonSchema, parsingOpts)
  /\ UNCHANGED <<jsonSchema, parsingOpts, flattened, csReordered, flattenedReordered,
                 j, recreated>>
  /\ UNCHANGED <<accVars, histVars, witVars, credVars, presVars, laterVars>>

\* cs.flatten()
Flatten ==
  /\ cs.st = "built"
  /\ Len(flattened) < MaxFlattens
  /\ flattened' = Append(flattened, flatten(cs))
  /\ UNCHANGED <<jsonSchema, parsingOpts, cs, csReordered, flattenedReordered,
                 j, recreated>>
  /\ UNCHANGED <<accVars, histVars, witVars, credVars, presVars, laterVars>>

\* The names typeOfName is called with: the flattened names, a name without its
\* path and a name that no document has
NamesToType(c) ==
  Range(flatten(c)[1]) \cup {NAME_KEY, SUBJECT_STR \o <<46>> \o AUD_KEY}

\* cs.typeOfName(name)
TypeOfName ==
  /\ cs.st = "built"
  /\ typed.st = "none"
  /\ \E name \in NamesToType(cs) :
       typed' = [st |-> "called", name |-> name, out |-> typeOfName(name, flatten(cs))]
  /\ UNCHANGED <<accVars, histVars, witVars, schemaVars, credVars, presVars,
                 tsVars, quasiVars, proofVars, blindVars, jsonVars, concVars, psVars>>

\* new CredentialSchema of the document with its keys in another order
ConstructReordered == \E order \in Orders :
  /\ cs.st = "built"
  /\ csReordered.st = "none"
  /\ csReordered' = CredentialSchema(Reordered(jsonSchema, order), parsingOpts)
  /\ UNCHANGED <<jsonSchema, parsingOpts, cs, flattened, flattenedReordered,
                 j, recreated>>
  /\ UNCHANGED <<accVars, histVars, witVars, credVars, presVars, laterVars>>

\* csReordered.flatten()
FlattenReordered ==
  /\ csReordered.st = "built"
  /\ flattenedReordered = <<>>
  /\ flattenedReordered' = <<flatten(csReordered)>>
  /\ UNCHANGED <<jsonSchema, parsingOpts, cs, flattened, csReordered, j, recreated>>
  /\ UNCHANGED <<accVars, histVars, witVars, credVars, presVars, laterVars>>

\* cs.toJSON()
ToJSON ==
  /\ cs.st = "built"
  /\ j.st = "none"
  /\ j' = toJSON(cs)
  /\ UNCHANGED <<jsonSchema, parsingOpts, cs, flattened, csReordered,
                 flattenedReordered, recreated>>
  /\ UNCHANGED <<accVars, histVars, witVars, credVars, presVars, laterVars>>

\* The caller writes another version in the JSON
SetVersion == \E version \in Versions :
  /\ j.st = "made"
  /\ recreated.st = "none"
  /\ j.version # version
  /\ j' = [j EXCEPT !.version = version]
  /\ UNCHANGED <<jsonSchema, parsingOpts, cs, flattened, csReordered,
                 flattenedReordered, recreated>>
  /\ UNCHANGED <<accVars, histVars, witVars, credVars, presVars, laterVars>>

\* CredentialSchema.fromJSON(j)
FromJSON ==
  /\ j.st = "made"
  /\ recreated.st = "none"
  /\ recreated' = fromJSON(j)
  /\ UNCHANGED <<jsonSchema, parsingOpts, cs, flattened, csReordered,
                 flattenedReordered, j>>
  /\ UNCHANGED <<accVars, histVars, witVars, credVars, presVars, laterVars>>

(***************************************************************************)
(* Credentials: the builder, signing, verification and the JSON form.      *)
(***************************************************************************)
NumKeys == 2
SigBytes == 2

\* The key pairs: the secret key k signs, the public key k verifies
Keypairs == 1..NumKeys

\* 'membership'
MEM_CHECK_STR == <<109, 101, 109, 98, 101, 114, 115, 104, 105, 112>>

\* 'non-membership'
NON_MEM_CHECK_STR ==
  <<110, 111, 110, 45, 109, 101, 109, 98, 101, 114, 115, 104, 105, 112>>

\* 'revoked', a revocationCheck that is neither of the two
OTHER_CHECK_STR == <<114, 101, 118, 111, 107, 101, 100>>

\* 'DockVBAccumulator2022'
STATUS_TYPE_STR ==
  <<68, 111, 99, 107, 86, 66, 65, 99, 99, 117, 109, 117, 108, 97, 116, 111, 114,
    50, 48, 50, 50>>

\* The registry id of a credential status is its 'id'
REGISTRY_ID_STR == ID_STR

\* 'John', 'Smith', 'Jane', 'acc1', 'user1'
JOHN == <<74, 111, 104, 110>>
SMITH == <<83, 109, 105, 116, 104>>
JANE == <<74, 97, 110, 101>>
ACCUM_ID == <<97, 99, 99, 49>>
MEMBER_ID == <<117, 115, 101, 114, 49>>

\* No Credential: sign was not called yet, or it threw
NoCredential(st) == [st |-> st]

\* new CredentialBuilder()
NewCredentialBuilder == [subject |-> Undefined, credStatus |-> Undefined]

\* setCredentialStatus(registryId, revCheck, memberValue)
setCredentialStatus(registryId, revCheck, memberValue) ==
  Obj(<<KV(ID_STR, Str(registryId)), KV(REV_CHECK_STR, Str(revCheck)),
        KV(REV_ID_STR, Str(memberValue)), KV(TYPE_STR, Str(STATUS_TYPE_STR))>>)

\* JSON.stringify(schema.toJSON()), the text signed as credentialSchema
SchemaText(schema) ==
  With(toJSON(schema), LAMBDA js :
    Str(Concat(<<Concat(js.id), js.type,
                 IF js.parsingOptions.useDefaults THEN TRUE_STR ELSE FALSE_STR,
                 NumberToString(js.parsingOptions.defaultMinimumInteger),
                 NumberToString(js.parsingOptions.defaultDecimalPlaces),
                 js.version>>)))

\* serializeForSigning(): the object whose flattened values are signed
serializeForSigning(version, schema, subject, credStatus) ==
  Obj(<<KV(CRYPTO_VERSION_STR, Str(version)),
        KV(SCHEMA_STR, SchemaText(schema)),
        KV(SUBJECT_STR, subject)>>
        \o (IF credStatus = Undefined THEN <<>> ELSE <<KV(STATUS_STR, credStatus)>>))

\* The sorted flattened names of an object
FlattenedNames(object) == SortStrings(Keys(Flat(object)))

\* The validation of sign that accepts an object without some path of the schema
validateAgainstSchemaAllowingMissing(schema, object) ==
  With(flatten(schema)[1], LAMBDA names :
    Keys(Flat(object)) \subseteq {names[i] : i \in DOMAIN names})

\* The validation of sign: the flattened names of the credential are those of the
\* flattened schema
validateAgainstSchema(schema, object) == FlattenedNames(object) = flatten(schema)[1]

\* Encoder.encodeMessageObject(messages): the sorted flattened names and, for each,
\* the value encoded with the encode function of the name; throws when a name has
\* neither an encode function nor a default
encodeMessageObject(encoder, messages) ==
  With(Flat(messages), LAMBDA fl :
  With(SortStrings(Keys(fl)), LAMBDA names :
    IF \E i \in DOMAIN names : encodeMessage(encoder, names[i]) = {} THEN Threw
    ELSE Returned(<<names,
                    [i \in DOMAIN names |->
                       [by |-> CHOOSE f \in encodeMessage(encoder, names[i]) : TRUE,
                        of |-> Get(Obj(fl), names[i])]]>>)))

\* Signature.generate(encodedValues, secretKey, params): a signature is the key
\* and the messages it was made with, and the bytes of it that were altered since
SignatureGenerate(encodedValues, secretKey) ==
  [by |-> secretKey, on |-> encodedValues, flipped |-> {}]

\* signature.verify that does not look at the messages
SignatureVerifyKeyOnly(signature, encodedValues, publicKey) ==
  signature.flipped = {} /\ signature.by = publicKey

\* signature.verify(encodedValues, publicKey, params)
SignatureVerify(signature, encodedValues, publicKey) ==
  /\ signature.flipped = {}
  /\ signature.by = publicKey
  /\ signature.on = encodedValues

\* signMessageObject(messages, secretKey, label, encoder)
signMessageObject(messages, secretKey, encoder) ==
  With(encodeMessageObject(encoder, messages), LAMBDA encoded :
    IF ~encoded.ok THEN Threw
    ELSE Returned(SignatureGenerate(encoded.val[2], secretKey)))

\* verifyMessageObject(messages, signature, publicKey, label, encoder)
verifyMessageObject(messages, signature, publicKey, encoder) ==
  With(encodeMessageObject(encoder, messages), LAMBDA encoded :
    encoded.ok /\ SignatureVerify(signature, encoded.val[2], publicKey))

\* CredentialBuilder.sign(secretKey)
sign(builder, schema, secretKey) ==
  With(serializeForSigning(VERSION, schema, builder.subject, builder.credStatus),
       LAMBDA s :
    IF ~validateAgainstSchema(schema, s) THEN NoCredential("threw")
    ELSE With(signMessageObject(s, secretKey, schema.encoder), LAMBDA signed :
           IF ~signed.ok THEN NoCredential("threw")
           ELSE [st |-> "signed", version |-> VERSION, schema |-> schema,
                 subject |-> builder.subject, credStatus |-> builder.credStatus,
                 signature |-> signed.val]))

\* Credential.verify(publicKey)
verify(c, publicKey) ==
  verifyMessageObject(serializeForSigning(c.version, c.schema, c.subject, c.credStatus),
                      c.signature, publicKey, c.schema.encoder)

\* Credential.toJSON(): the schema is embedded in its JSON form
credToJSON(c) ==
  [cryptoVersion |-> c.version,
   credentialSchema |-> toJSON(c.schema),
   credentialSubject |-> c.subject,
   credentialStatus |-> c.credStatus,
   proof |-> c.signature]

\* Credential.fromJSON(j)
credFromJSON(cj) ==
  With(fromJSON(cj.credentialSchema), LAMBDA schema :
    IF schema.st # "built" THEN NoCredential("threw")
    ELSE [st |-> "signed", version |-> cj.cryptoVersion, schema |-> schema,
          subject |-> cj.credentialSubject, credStatus |-> cj.credentialStatus,
          signature |-> cj.proof])

\* The schemas of credentials: a flat subject and a nested one, without and with a
\* credentialStatus
FlatSubjectNode == ObjectNode(<<KV(NAME_KEY, StringNode), KV(SSN_KEY, StringNode)>>)

NestedSubjectNode ==
  ObjectNode(<<KV(NAME_KEY, StringNode),
               KV(SSN_KEY, ObjectNode(<<KV(SSN_KEY, IntegerNode({IntNum(0)})),
                                        KV(NAME_KEY, StringNode)>>))>>)

CredSchemas ==
  {JsonSchemaOf(<<KV(SUBJECT_STR, subject)>> \o status) :
     subject \in {FlatSubjectNode, NestedSubjectNode},
     status \in {<<>>, <<KV(STATUS_STR, statusAsJsonSchema)>>}}

\* The subjects given to the builder: the paths of the flat schema, one renamed,
\* one missing, one more; the paths of the nested schema, one missing
ExactFlatSubject == Obj(<<KV(NAME_KEY, Str(JOHN)), KV(SSN_KEY, Str(SMITH))>>)

ExactNestedSubject ==
  Obj(<<KV(NAME_KEY, Str(JOHN)),
        KV(SSN_KEY, Obj(<<KV(SSN_KEY, Num(IntNum(3))), KV(NAME_KEY, Str(SMITH))>>))>>)

CredSubjects ==
  {ExactFlatSubject,
   Obj(<<KV(NAME_KEY, Str(JOHN)), KV(AUD_KEY, Str(SMITH))>>),
   Obj(<<KV(NAME_KEY, Str(JOHN))>>),
   Obj(<<KV(NAME_KEY, Str(JOHN)), KV(SSN_KEY, Str(SMITH)), KV(AUD_KEY, Str(SMITH))>>),
   ExactNestedSubject,
   Obj(<<KV(NAME_KEY, Str(JOHN)), KV(SSN_KEY, Obj(<<KV(SSN_KEY, Num(IntNum(3)))>>))>>)}

\* The values an attribute is changed to
MutatedValues == {Str(JANE)}

NotVerified == [op |-> "none", pk |-> 0, ok |-> FALSE, sameJSON |-> FALSE]

\* builder.subject = subject
SetSubject == \E subject \in CredSubjects :
  /\ cred.st # "signed"
  /\ credBuilder.subject # subject
  /\ credBuilder' = [credBuilder EXCEPT !.subject = subject]
  /\ UNCHANGED <<cred, issued, verified>>
  /\ UNCHANGED <<accVars, histVars, witVars, schemaVars, presVars, laterVars>>

\* builder.setCredentialStatus(registryId, revCheck, memberValue)
SetCredentialStatus == \E revCheck \in {MEM_CHECK_STR, NON_MEM_CHECK_STR} :
  /\ cred.st # "signed"
  /\ credBuilder.credStatus = Undefined
  /\ credBuilder' =
       [credBuilder EXCEPT !.credStatus = setCredentialStatus(ACCUM_ID, revCheck, MEMBER_ID)]
  /\ UNCHANGED <<cred, issued, verified>>
  /\ UNCHANGED <<accVars, histVars, witVars, schemaVars, presVars, laterVars>>

\* builder.schema = cs; builder.sign(sk)
Sign == \E sk \in Keypairs :
  /\ cs.st = "built"
  /\ cred.st # "signed"
  /\ cred' = sign(credBuilder, cs, sk)
  /\ issued' = cred'
  /\ UNCHANGED <<credBuilder, verified>>
  /\ UNCHANGED <<accVars, histVars, witVars, schemaVars, presVars, laterVars>>

\* cred.verify(pk), once for a credential as it is
Verify == \E pk \in Keypairs :
  /\ cred.st = "signed"
  /\ verified = NotVerified
  /\ verified' = [op |-> "verify", pk |-> pk, ok |-> verify(cred, pk), sameJSON |-> FALSE]
  /\ UNCHANGED <<credBuilder, cred, issued>>
  /\ UNCHANGED <<accVars, histVars, witVars, schemaVars, presVars, laterVars>>

\* checkJsonConvForCred(cred, pk): Credential.fromJSON(cred.toJSON()) is verified
\* and its JSON compared with that of cred
checkJsonConvForCred(c, pk) ==
  With(credFromJSON(credToJSON(c)), LAMBDA recreatedCred :
    [op |-> "checkJsonConvForCred", pk |-> pk,
     ok |-> recreatedCred.st = "signed" /\ verify(recreatedCred, pk),
     sameJSON |-> recreatedCred.st = "signed"
                    /\ credToJSON(recreatedCred) = credToJSON(c)])

CheckJsonConvForCred == \E pk \in Keypairs :
  /\ cred.st = "signed"
  /\ verified = NotVerified
  /\ verified' = checkJsonConvForCred(cred, pk)
  /\ UNCHANGED <<credBuilder, cred, issued>>
  /\ UNCHANGED <<accVars, histVars, witVars, schemaVars, presVars, laterVars>>

\* A byte of the signature of the credential is altered (altering it once more
\* restores it)
MutateSignature == \E byte \in 1..SigBytes :
  /\ cred.st = "signed"
  /\ cred' = [cred EXCEPT !.signature.flipped =
                (@ \ {byte}) \cup ({byte} \ @)]
  /\ verified' = NotVerified
  /\ UNCHANGED <<credBuilder, issued>>
  /\ UNCHANGED <<accVars, histVars, witVars, schemaVars, presVars, laterVars>>

\* The value of a signed attribute of the subject, or the revocationId of the
\* status, is changed to another one
MutateAttribute == \E value \in MutatedValues :
  /\ cred.st = "signed"
  /\ \/ \E i \in DOMAIN cred.subject.kv :
          /\ cred.subject.kv[i].v.t = "string"
          /\ cred.subject.kv[i].v # value
          /\ cred' = [cred EXCEPT !.subject.kv[i].v = value]
     \/ /\ cred.credStatus # Undefined
        /\ Get(cred.credStatus, REV_ID_STR) # value
        /\ cred' = [cred EXCEPT !.credStatus =
                      Obj(Put(cred.credStatus.kv, REV_ID_STR, value))]
  /\ verified' = NotVerified
  /\ UNCHANGED <<credBuilder, issued>>
  /\ UNCHANGED <<accVars, histVars, witVars, schemaVars, presVars, laterVars>>

\* A Uint8Array, by a number that stands for its bytes
Bytes(n) == [bytes |-> n]

Contexts == {Bytes(1), Bytes(2)}

Nonces == {Bytes(1), Bytes(2)}

(***************************************************************************)
(* Composite proofs: the proof specification, its quasi variant, and the   *)
(* engine that generates and verifies a proof.  The engine is the back end *)
(* of the library and is modelled as an ideal one: a proof is the          *)
(* specification and the nonce it was generated for, and whether the       *)
(* witnesses satisfied the statements and the meta-statements.             *)
(***************************************************************************)
\* new ProofSpecG1(statements, metaStatements, setupParams, context): the value
\* generateProofSpecG1 makes of the statements, the meta-statements, the values
\* of the setup params and the context
ProofSpecG1(statements, metaStatements, setupParams, context) ==
  [statements |-> statements, metaStatements |-> metaStatements,
   params |-> [i \in DOMAIN setupParams |-> setupParams[i].value],
   context |-> context]

\* new QuasiProofSpecG1(statements, metaStatements, setupParams, context)
QuasiProofSpecG1(statements, metaStatements, setupParams, context) ==
  [statements |-> statements, metaStatements |-> metaStatements,
   setupParams |-> setupParams, context |-> context]

\* The outcome of a call on a quasi proof spec: the spec after it and the index
\* returned
QuasiOutcome(q, returned) == [q |-> q, returned |-> returned]

\* quasi.addStatement(statement)
addStatement(q, statement) ==
  QuasiOutcome([q EXCEPT !.statements = Append(@, statement)], Len(q.statements))

\* quasi.addMetaStatement(metaStatement)
addMetaStatement(q, metaStatement) ==
  QuasiOutcome([q EXCEPT !.metaStatements = Append(@, metaStatement)],
               Len(q.metaStatements))

\* quasi.addSetupParam(setupParam)
addSetupParam(q, setupParam) ==
  QuasiOutcome([q EXCEPT !.setupParams = Append(@, setupParam)], Len(q.setupParams))

\* quasi.setContext(context)
setContext(q, context) == QuasiOutcome([q EXCEPT !.context = context], 0 - 1)

\* toProofSpec with the setup params in the reverse order
toProofSpecReversingParams(q) ==
  ProofSpecG1(q.statements, q.metaStatements, Reversed(q.setupParams), q.context)

\* quasi.toProofSpec()
toProofSpec(q) == ProofSpecG1(q.statements, q.metaStatements, q.setupParams, q.context)

\* The messages a signature statement and its witness have together, in the
\* order of the positions
MessagesOf(statement, witness) ==
  [i \in 1..statement.msgCount |->
     IF (i - 1) \in DOMAIN statement.revealedMsgs THEN statement.revealedMsgs[i - 1]
     ELSE IF (i - 1) \in DOMAIN witness.unrevealedMsgs THEN witness.unrevealedMsgs[i - 1]
     ELSE Undefined]

\* Whether a witness is one of its statement
WitnessHolds(statement, witness) ==
  /\ witness.kind = statement.kind
  /\ statement.kind = "bbsSignature" =>
       /\ DOMAIN statement.revealedMsgs \cup DOMAIN witness.unrevealedMsgs
            = 0..(statement.msgCount - 1)
       /\ SignatureVerify(witness.signature, MessagesOf(statement, witness), statement.pk)

\* The scalar a reference of a witness equality points to: an unrevealed message
\* of a signature, the member of an accumulator; none for any other reference
HasScalar(witnesses, ref) ==
  /\ (ref[1] + 1) \in DOMAIN witnesses
  /\ IF witnesses[ref[1] + 1].kind = "bbsSignature"
       THEN ref[2] \in DOMAIN witnesses[ref[1] + 1].unrevealedMsgs
       ELSE ref[2] = 0

ScalarAt(witnesses, ref) ==
  IF witnesses[ref[1] + 1].kind = "bbsSignature"
    THEN witnesses[ref[1] + 1].unrevealedMsgs[ref[2]]
    ELSE witnesses[ref[1] + 1].value

\* A witness equality that asks only for the scalars to be there
EqualityHoldsOfAny(witnesses, witnessEq) ==
  \A r \in DOMAIN witnessEq : HasScalar(witnesses, witnessEq[r])

\* Whether the scalars that a witness equality links are all there and equal
EqualityHolds(witnesses, witnessEq) ==
  /\ \A r \in DOMAIN witnessEq : HasScalar(witnesses, witnessEq[r])
  /\ \A r1, r2 \in DOMAIN witnessEq :
       ScalarAt(witnesses, witnessEq[r1]) = ScalarAt(witnesses, witnessEq[r2])

\* Whether a reference of a witness equality is to a statement of the proof spec
\* and to a position that is valid for it: a message of a signature that the
\* statement does not reveal, position 0 of an accumulator statement
ValidRef(statements, ref) ==
  /\ (ref[1] + 1) \in DOMAIN statements
  /\ IF statements[ref[1] + 1].kind = "bbsSignature"
       THEN /\ ref[2] \in 0..(statements[ref[1] + 1].msgCount - 1)
            /\ ref[2] \notin DOMAIN statements[ref[1] + 1].revealedMsgs
       ELSE ref[2] = 0

\* proofSpec.isValid()
isValid(proofSpec) ==
  \A m \in DOMAIN proofSpec.metaStatements :
    \A r \in DOMAIN proofSpec.metaStatements[m] :
      ValidRef(proofSpec.statements, proofSpec.metaStatements[m][r])

\* Whether the witnesses satisfy the statements and the meta-statements
Satisfied(statements, metaStatements, witnesses) ==
  /\ Len(witnesses) = Len(statements)
  /\ \A s \in DOMAIN statements : WitnessHolds(statements[s], witnesses[s])
  /\ \A m \in DOMAIN metaStatements : EqualityHolds(witnesses, metaStatements[m])

\* CompositeProofG1.generate(proofSpec, witnesses, nonce)
generate(proofSpec, witnesses, nonce) ==
  [spec |-> proofSpec, nonce |-> nonce,
   sound |-> Satisfied(proofSpec.statements, proofSpec.metaStatements, witnesses)]

\* CompositeProofG1.generateUsingQuasiProofSpec(quasi, witnesses, nonce): the back
\* end is given the statements, the meta-statements, the values of the setup
\* params and the context one by one
generateUsingQuasiProofSpec(q, witnesses, nonce) ==
  [spec |-> [statements |-> q.statements, metaStatements |-> q.metaStatements,
             params |-> [i \in DOMAIN q.setupParams |-> q.setupParams[i].value],
             context |-> q.context],
   nonce |-> nonce,
   sound |-> Satisfied(q.statements, q.metaStatements, witnesses)]

\* proof.verify that does not look at the nonce
proofVerifyAnyNonce(proof, proofSpec, nonce) ==
  proof.sound /\ proof.spec = proofSpec

\* proof.verify(proofSpec, nonce).verified
proofVerify(proof, proofSpec, nonce) ==
  proof.sound /\ proof.spec = proofSpec /\ proof.nonce = nonce

\* proof.verifyUsingQuasiProofSpec(quasi, nonce).verified
verifyUsingQuasiProofSpec(proof, q, nonce) == proofVerify(proof, toProofSpec(q), nonce)

(***************************************************************************)
(* The presentation builder.  The credential with index i of the code is   *)
(* credentials[i + 1], a pair of a reference to a Credential and a public  *)
(* key; the maps of the code are functions on the indices given as keys.   *)
(***************************************************************************)
MaxCreds == 2
MaxEqualities == 2
MaxFinalizes == 1
MaxCalls == 5
MaxRetries == 1

\* new PresentationSpecification()
NewPresentationSpecification == [credentials |-> <<>>, attributeEqualities |-> <<>>]

\* new PresentationBuilder()
NewPresentationBuilder ==
  [credentials |-> <<>>, revealedAttributes |-> <<>>, attributeEqualities |-> <<>>,
   credStatuses |-> <<>>, spec |-> NewPresentationSpecification,
   context |-> Undefined, nonce |-> Undefined]

NoCall ==
  [op |-> "none", idxs |-> {}, threw |-> FALSE, returned |-> 0 - 1, calls |-> 0,
   finalizes |-> 0]

NoPresentation == [st |-> "none"]

\* The outcome of a call on a builder: the builder after it, whether it threw and
\* what it returned
Outcome3(b, threw, returned) == [b |-> b, threw |-> threw, returned |-> returned]

\* validateCredIndex(credIdx): whether it returns; it throws when credIdx is at
\* least the number of credentials, and that is its only condition
validateCredIndex(b, credIdx) == ~(credIdx >= Len(b.credentials))

\* builder.context = context and builder.nonce = nonce
setBuilderContext(b, context) == Outcome3([b EXCEPT !.context = context], FALSE, 0 - 1)

setBuilderNonce(b, nonce) == Outcome3([b EXCEPT !.nonce = nonce], FALSE, 0 - 1)

\* addCredential that puts the new credential first
addCredentialFirst(b, credential, pk) ==
  With([b EXCEPT !.credentials = <<(<<credential, pk>>)>> \o @], LAMBDA after :
    Outcome3(after, FALSE, Len(after.credentials) - 1))

\* addCredential(credential, pk)
addCredential(b, credential, pk) ==
  With([b EXCEPT !.credentials = Append(@, <<credential, pk>>)], LAMBDA after :
    Outcome3(after, FALSE, Len(after.credentials) - 1))

\* map.set(key, value)
MapSet(map, key, value) ==
  [k \in DOMAIN map \cup {key} |-> IF k = key THEN value ELSE map[k]]

\* markAttributesRevealed that forgets what was marked before
markAttributesRevealedAfresh(b, credIdx, attributeNames) ==
  IF ~validateCredIndex(b, credIdx) THEN Outcome3(b, TRUE, 0 - 1)
  ELSE Outcome3([b EXCEPT !.revealedAttributes =
                   MapSet(@, credIdx, {SUBJECT_STR \o <<46>> \o a : a \in attributeNames})],
                FALSE, 0 - 1)

\* markAttributesRevealed(credIdx, attributeNames)
markAttributesRevealed(b, credIdx, attributeNames) ==
  IF ~validateCredIndex(b, credIdx) THEN Outcome3(b, TRUE, 0 - 1)
  ELSE With(IF credIdx \in DOMAIN b.revealedAttributes
              THEN b.revealedAttributes[credIdx] ELSE {}, LAMBDA revealed :
         Outcome3([b EXCEPT !.revealedAttributes =
                     MapSet(@, credIdx,
                            revealed \cup {SUBJECT_STR \o <<46>> \o a : a \in attributeNames})],
                  FALSE, 0 - 1))

\* markAttributesEqual(...equality)
markAttributesEqual(b, equality) ==
  IF \E r \in DOMAIN equality : ~validateCredIndex(b, equality[r][1])
    THEN Outcome3(b, TRUE, 0 - 1)
    ELSE Outcome3([b EXCEPT !.attributeEqualities = Append(@, equality)], FALSE, 0 - 1)

\* addAccumInfoForCredStatus(credIdx, accumWitness, accumulated, accumPublicKey, extra)
addAccumInfoForCredStatus(b, credIdx, accumWitness, accumulatedValue, accumPublicKey) ==
  IF ~validateCredIndex(b, credIdx) THEN Outcome3(b, TRUE, 0 - 1)
  ELSE Outcome3([b EXCEPT !.credStatuses =
                   MapSet(@, credIdx,
                          [wit |-> accumWitness, acc |-> accumulatedValue,
                           pk |-> accumPublicKey, extra |-> Obj(<<>>)])],
                FALSE, 0 - 1)

\* The credentials a holder adds to a presentation: one without a status, one
\* with a status checked by membership, one with a status checked by
\* non-membership, all of the flat schema and signed with the secret key 1, and
\* one without a status, with the same name and another SSN, signed with the
\* secret key 2, and one of the schema with a status whose revocationCheck is
\* neither 'membership' nor 'non-membership' (the schema declares it a string)
PresCredentials ==
  With(CredentialSchema(JsonSchemaOf(<<KV(SUBJECT_STR, FlatSubjectNode)>>),
                        AsPartial(DefaultSchemaParsingOpts)), LAMBDA plain :
  With(CredentialSchema(JsonSchemaOf(<<KV(SUBJECT_STR, FlatSubjectNode),
                                       KV(STATUS_STR, statusAsJsonSchema)>>),
                        AsPartial(DefaultSchemaParsingOpts)), LAMBDA withStatus :
    <<sign([subject |-> ExactFlatSubject, credStatus |-> Undefined], plain, 1),
      sign([subject |-> ExactFlatSubject,
            credStatus |-> setCredentialStatus(ACCUM_ID, MEM_CHECK_STR, MEMBER_ID)],
           withStatus, 1),
      sign([subject |-> ExactFlatSubject,
            credStatus |-> setCredentialStatus(ACCUM_ID, NON_MEM_CHECK_STR, MEMBER_ID)],
           withStatus, 1),
      sign([subject |-> Obj(<<KV(NAME_KEY, Str(JOHN)), KV(SSN_KEY, Str(JANE))>>),
            credStatus |-> Undefined], plain, 2),
      sign([subject |-> ExactFlatSubject,
            credStatus |-> setCredentialStatus(ACCUM_ID, OTHER_CHECK_STR, MEMBER_ID)],
           withStatus, 1)>>))

\* The credentials of one issuer, and those of two issuers
OfOneIssuer == {1, 2, 3}
OfTwoIssuers == {1, 4}

\* The credentials with a status
WithAStatus == {2, 3, 5}

\* this.credentials[i][0] and this.credentials[i][1]
CredAt(b, i) == PresCredentials[b.credentials[i + 1][1]]

PkAt(b, i) == b.credentials[i + 1][2]

\* The position of a name in a list of names, from 0, and -1 when it is not there
indexOf(names, name) == IndexOf(names, name) - 1

\* The integers of a set in increasing order
RECURSIVE Increasing(_)
Increasing(S) ==
  IF S = {} THEN <<>>
  ELSE With(CHOOSE x \in S : \A y \in S : x <= y, LAMBDA least :
         <<least>> \o Increasing(S \ {least}))

\* The revealedNames of finalize without the names that are always revealed
revealedNamesAsMarked(b, i) ==
  IF i \in DOMAIN b.revealedAttributes THEN b.revealedAttributes[i] ELSE {}

\* The revealedNames of credential i in finalize: those marked, the version, the
\* schema and, with a status, its registry id and its check type
revealedNames(b, i) ==
  (IF i \in DOMAIN b.revealedAttributes THEN b.revealedAttributes[i] ELSE {})
    \cup {CRYPTO_VERSION_STR, SCHEMA_STR}
    \cup (IF CredAt(b, i).credStatus # Undefined
            THEN {STATUS_STR \o <<46>> \o REGISTRY_ID_STR,
                  STATUS_STR \o <<46>> \o REV_CHECK_STR}
            ELSE {})

\* getRevealedAndUnrevealed(messages, revealedMsgNames, encoder): the encoded
\* messages at the positions of the revealed names, those at the other positions,
\* and the raw values of the revealed names
getRevealedAndUnrevealed(messages, revealedMsgNames, encoder) ==
  With(encodeMessageObject(encoder, messages).val, LAMBDA encoded :
  With({p \in 0..(Len(encoded[1]) - 1) : encoded[1][p + 1] \in revealedMsgNames},
       LAMBDA positions :
    [revealedMsgs |-> [p \in positions |-> encoded[2][p + 1]],
     unrevealedMsgs |-> [p \in (0..(Len(encoded[1]) - 1)) \ positions |-> encoded[2][p + 1]],
     revealedMsgsRaw |-> [p \in positions |-> <<encoded[1][p + 1], encoded[2][p + 1].of>>]]))

\* The pairs of name and raw value of revealedMsgsRaw
Raw(r) == {r.revealedMsgsRaw[p] : p \in DOMAIN r.revealedMsgsRaw}

\* What the first loop of finalize makes of credential i: the signature statement,
\* its witness and the arguments of spec.addPresentedCredential
Presented(b, i) ==
  With(CredAt(b, i), LAMBDA c :
  With(getRevealedAndUnrevealed(
         serializeForSigning(c.version, c.schema, c.subject, c.credStatus),
         revealedNames(b, i), c.schema.encoder), LAMBDA r :
    [statement |-> [kind |-> "bbsSignature", msgCount |-> Len(flatten(c.schema)[1]),
                    pk |-> PkAt(b, i), revealedMsgs |-> r.revealedMsgs],
     witness |-> [kind |-> "bbsSignature", signature |-> c.signature,
                  unrevealedMsgs |-> r.unrevealedMsgs],
     credential |->
       [version |-> {raw[2] : raw \in {x \in Raw(r) : x[1] = CRYPTO_VERSION_STR}},
        schema |-> {raw[2] : raw \in {x \in Raw(r) : x[1] = SCHEMA_STR}},
        revealedAttributes |->
          {raw \in Raw(r) : StartsWith(raw[1], SUBJECT_STR \o <<46>>)},
        status |->
          IF c.credStatus = Undefined THEN Undefined
          ELSE [id |-> Get(c.credStatus, REGISTRY_ID_STR),
                revocationCheck |-> Get(c.credStatus, REV_CHECK_STR),
                accumulated |-> b.credStatuses[i].acc,
                extra |-> b.credStatuses[i].extra]]]))

\* The credentials with a status, and what the second loop of finalize makes of
\* one: the accumulator statement, its witness and the witness equality
StatusCreds(b) ==
  {i \in 0..(Len(b.credentials) - 1) : CredAt(b, i).credStatus # Undefined}

\* credStatusAux with the credentials in decreasing order of index
credStatusAuxDecreasing(b) == Reversed(Increasing(StatusCreds(b)))

\* credStatusAux: the credentials with a status in the order the first loop of
\* finalize meets them
credStatusAux(b) == Increasing(StatusCreds(b))

WrongVariant(b, i) ==
  IF Get(CredAt(b, i).credStatus, REV_CHECK_STR) = Str(MEM_CHECK_STR)
    THEN b.credStatuses[i].wit # "MembershipWitness"
    ELSE b.credStatuses[i].wit # "NonMembershipWitness"

\* StatusStatement with the witness equality on the position of the status
\* revocationCheck
StatusStatementOnRevCheck(b, i, sIdx) ==
  With(CredAt(b, i), LAMBDA c :
  With(IF Get(c.credStatus, REV_CHECK_STR) = Str(MEM_CHECK_STR)
         THEN "accumulatorMembership" ELSE "accumulatorNonMembership", LAMBDA kind :
    [statement |-> [kind |-> kind, pk |-> b.credStatuses[i].pk,
                    accumulated |-> b.credStatuses[i].acc],
     witness |-> [kind |-> kind,
                  value |-> [by |-> CHOOSE f \in encodeMessage(c.schema.encoder,
                                        STATUS_STR \o <<46>> \o REV_ID_STR) : TRUE,
                             of |-> Get(c.credStatus, REV_ID_STR)],
                  wit |-> b.credStatuses[i].wit],
     witnessEq |-> <<(<<i, indexOf(flatten(c.schema)[1],
                                   STATUS_STR \o <<46>> \o REV_CHECK_STR)>>),
                     (<<sIdx, 0>>)>>]))

StatusStatement(b, i, sIdx) ==
  With(CredAt(b, i), LAMBDA c :
  With(IF Get(c.credStatus, REV_CHECK_STR) = Str(MEM_CHECK_STR)
         THEN "accumulatorMembership" ELSE "accumulatorNonMembership", LAMBDA kind :
    [statement |-> [kind |-> kind, pk |-> b.credStatuses[i].pk,
                    accumulated |-> b.credStatuses[i].acc],
     witness |-> [kind |-> kind,
                  value |-> [by |-> CHOOSE f \in encodeMessage(c.schema.encoder,
                                        STATUS_STR \o <<46>> \o REV_ID_STR) : TRUE,
                             of |-> Get(c.credStatus, REV_ID_STR)],
                  wit |-> b.credStatuses[i].wit],
     witnessEq |-> <<(<<i, indexOf(flatten(c.schema)[1],
                                   STATUS_STR \o <<46>> \o REV_ID_STR)>>),
                     (<<sIdx, 0>>)>>]))

\* Whether the loop over the attribute equalities throws at an equality: a
\* reference to no flattened schema, or to a name that a flattened schema has not
NotFound(b, eql) ==
  \E r \in DOMAIN eql :
    \/ eql[r][1] \notin 0..(Len(b.credentials) - 1)
    \/ indexOf(flatten(CredAt(b, eql[r][1]).schema)[1],
               SUBJECT_STR \o <<46>> \o eql[r][2]) = 0 - 1

\* EqualityWitnessEq with the name looked up without the prefix of the subject
EqualityWitnessEqBareName(b, eql) ==
  [r \in DOMAIN eql |->
     <<eql[r][1], indexOf(flatten(CredAt(b, eql[r][1]).schema)[1], eql[r][2])>>]

\* The witness equality of an attribute equality: for every reference the index of
\* the credential and the position of the name in its flattened schema
EqualityWitnessEq(b, eql) ==
  [r \in DOMAIN eql |->
     <<eql[r][1], indexOf(flatten(CredAt(b, eql[r][1]).schema)[1],
                          SUBJECT_STR \o <<46>> \o eql[r][2])>>]

\* The error of the loop over the attribute equalities at an equality: the first
\* reference that fails is to no flattened schema (reading [0] of undefined is a
\* TypeError) or to a name that is not found
ErrorAt(b, eql) ==
  With(Increasing({r \in DOMAIN eql : NotFound(b, <<eql[r]>>)})[1], LAMBDA r :
    IF eql[r][1] \notin 0..(Len(b.credentials) - 1)
      THEN "TypeError" ELSE "Attribute name was not found")

\* What finalize leaves when it throws
Thrown(error) == [st |-> "threw", error |-> error]

\* The credentials with a status on which every status is looked up as missing
MissingStatusOfAll(b) == StatusCreds(b)

\* The credentials with a status for which credStatuses.get(i) is undefined
MissingStatus(b) == {i \in StatusCreds(b) : i \notin DOMAIN b.credStatuses}

\* finalize(): the builder after the call and the presentation, if any.  The
\* first loop stops at the first credential with a status and no status details,
\* the second at the first witness of the wrong variant, the third at the first
\* equality with a name that is not found; what was written before stays written
\* (a set of revealedAttributes is the set finalize adds names to).
finalize(b) ==
  With(Len(b.credentials), LAMBDA numCreds :
  With(MissingStatus(b), LAMBDA missing :
  With(IF missing = {} THEN numCreds ELSE Increasing(missing)[1], LAMBDA stop1 :
  With([i \in 1..stop1 |-> Presented(b, i - 1)], LAMBDA presented :
  With([b EXCEPT
          !.revealedAttributes =
             [i \in DOMAIN @ |->
                IF i \in 0..(numCreds - 1) /\ i <= stop1 THEN revealedNames(b, i) ELSE @[i]],
          !.spec.credentials = @ \o [i \in 1..stop1 |-> presented[i].credential]],
       LAMBDA b1 :
    IF stop1 < numCreds THEN [b |-> b1, result |-> Thrown("No status details found")]
    ELSE
    With(credStatusAux(b), LAMBDA aux :
    IF \E a \in DOMAIN aux : WrongVariant(b, aux[a])
      THEN [b |-> b1, result |-> Thrown("Expected other witness")]
    ELSE
    With([a \in DOMAIN aux |-> StatusStatement(b, aux[a], numCreds + a - 1)],
         LAMBDA statuses :
    With({e \in DOMAIN b.attributeEqualities : NotFound(b, b.attributeEqualities[e])},
         LAMBDA notFound :
    With(IF notFound = {} THEN Len(b.attributeEqualities)
         ELSE Increasing(notFound)[1] - 1, LAMBDA done3 :
    With([b1 EXCEPT !.spec.attributeEqualities =
            @ \o SubSeq(b.attributeEqualities, 1, done3)], LAMBDA b3 :
      IF notFound # {}
        THEN [b |-> b3,
              result |-> Thrown(ErrorAt(b, b.attributeEqualities[Increasing(notFound)[1]]))]
      ELSE
      With([i \in 1..numCreds |-> presented[i].statement]
             \o [a \in DOMAIN aux |-> statuses[a].statement], LAMBDA statements :
      With([i \in 1..numCreds |-> presented[i].witness]
             \o [a \in DOMAIN aux |-> statuses[a].witness], LAMBDA witnesses :
      With([a \in DOMAIN aux |-> statuses[a].witnessEq]
             \o [e \in DOMAIN b.attributeEqualities |->
                   EqualityWitnessEq(b, b.attributeEqualities[e])], LAMBDA metaStatements :
        [b |-> b3,
         result |->
           [st |-> "built", statements |-> statements, witnesses |-> witnesses,
            metaStatements |-> metaStatements, spec |-> b3.spec,
            proof |-> generateUsingQuasiProofSpec(
                        QuasiProofSpecG1(statements, metaStatements, <<>>, b.context),
                        witnesses, b.nonce),
            context |-> b.context, nonce |-> b.nonce]])))))))))))))

\* The credential indices given to a builder: from -1 to the number of its
\* credentials, which is one past the last index
CredIndices(b) == (0 - 1)..Len(b.credentials)

\* The sets of attribute names marked as revealed
RevealSets == {{NAME_KEY}}

\* The attribute equalities requested: between two credentials on the same name
\* and on two names, with a name no schema has, with an index below 0, with an
\* index past the last
Equalities ==
  {<<(<<0, NAME_KEY>>), (<<1, NAME_KEY>>)>>,
   <<(<<0, NAME_KEY>>), (<<1, SSN_KEY>>)>>,
   <<(<<0, NAME_KEY>>), (<<1, AUD_KEY>>)>>,
   <<(<<0, NAME_KEY>>), (<<0 - 1, NAME_KEY>>)>>,
   <<(<<0, NAME_KEY>>), (<<MaxCreds, NAME_KEY>>)>>}

AccumWitnesses == {"MembershipWitness", "NonMembershipWitness"}

\* A call on the presentation builder within the budget of calls: the builder
\* after it, and the call either counted or recorded with its outcome
CallOn(out) ==
  /\ pbCall.calls < MaxCalls
  /\ pb' = out.b
  /\ UNCHANGED <<accVars, histVars, witVars, schemaVars, credVars, laterVars>>

Counted == pbCall' = [pbCall EXCEPT !.calls = @ + 1]

Recorded(op, idxs, out) ==
  pbCall' = [op |-> op, idxs |-> idxs, threw |-> out.threw, returned |-> out.returned,
             calls |-> pbCall.calls + 1, finalizes |-> pbCall.finalizes]

\* The public key of the issuer of a credential
IssuerKey(c) == PresCredentials[c].signature.by

\* builder.addCredential(credential, pk)
AddCredentialRecorded == \E c \in OfOneIssuer :
  /\ Len(pb.credentials) < MaxCreds
  /\ CallOn(addCredential(pb, c, IssuerKey(c)))
  /\ Recorded("addCredential", {<<c, IssuerKey(c)>>}, addCredential(pb, c, IssuerKey(c)))
  /\ UNCHANGED presentation

\* builder.addCredential(credential, pk) of a credential with a status
AddCredentialWithAStatus == \E c \in WithAStatus :
  /\ Len(pb.credentials) < MaxCreds
  /\ CallOn(addCredential(pb, c, IssuerKey(c)))
  /\ Recorded("addCredential", {<<c, IssuerKey(c)>>}, addCredential(pb, c, IssuerKey(c)))
  /\ UNCHANGED presentation

\* builder.markAttributesRevealed(credIdx, attributeNames)
MarkAttributesRevealed ==
  \E credIdx \in CredIndices(pb) : \E attributeNames \in RevealSets :
    /\ CallOn(markAttributesRevealed(pb, credIdx, attributeNames))
    /\ Counted
    /\ UNCHANGED presentation

MarkAttributesRevealedRecorded ==
  \E credIdx \in CredIndices(pb) : \E attributeNames \in RevealSets :
    /\ CallOn(markAttributesRevealed(pb, credIdx, attributeNames))
    /\ Recorded("markAttributesRevealed", {credIdx},
                markAttributesRevealed(pb, credIdx, attributeNames))
    /\ UNCHANGED presentation

\* The sets of names marked one after another: one name, another, and a name
\* with one that no schema has
RevealChoices == {{NAME_KEY}, {SSN_KEY}, {NAME_KEY, AUD_KEY}}

\* builder.markAttributesRevealed(credIdx, attributeNames), recorded with its
\* arguments
MarkAttributesRevealedOf ==
  \E credIdx \in CredIndices(pb) : \E attributeNames \in RevealChoices :
    /\ CallOn(markAttributesRevealed(pb, credIdx, attributeNames))
    /\ Recorded("markAttributesRevealed", {<<credIdx, attributeNames>>},
                markAttributesRevealed(pb, credIdx, attributeNames))
    /\ UNCHANGED presentation

\* builder.markAttributesEqual(...equality)
MarkAttributesEqual == \E equality \in Equalities :
  /\ Len(pb.attributeEqualities) < MaxEqualities
  /\ CallOn(markAttributesEqual(pb, equality))
  /\ Counted
  /\ UNCHANGED presentation

MarkAttributesEqualRecorded == \E equality \in Equalities :
  /\ Len(pb.attributeEqualities) < MaxEqualities
  /\ CallOn(markAttributesEqual(pb, equality))
  /\ Recorded("markAttributesEqual", {equality[r][1] : r \in DOMAIN equality},
              markAttributesEqual(pb, equality))
  /\ UNCHANGED presentation

\* builder.addAccumInfoForCredStatus(credIdx, accumWitness, accumulated, accumPublicKey)
AddAccumInfoForCredStatus ==
  \E credIdx \in CredIndices(pb) : \E accumWitness \in AccumWitnesses :
    /\ CallOn(addAccumInfoForCredStatus(pb, credIdx, accumWitness, 1, 1))
    /\ Counted
    /\ UNCHANGED presentation

AddAccumInfoForCredStatusRecorded ==
  \E credIdx \in CredIndices(pb) : \E accumWitness \in AccumWitnesses :
    /\ CallOn(addAccumInfoForCredStatus(pb, credIdx, accumWitness, 1, 1))
    /\ Recorded("addAccumInfoForCredStatus", {credIdx},
                addAccumInfoForCredStatus(pb, credIdx, accumWitness, 1, 1))
    /\ UNCHANGED presentation

\* builder.finalize(): when the witnesses do not satisfy the statements and the
\* meta-statements, the back end either throws on generating the proof or
\* generates a proof that does not verify
Finalize ==
  /\ pbCall.finalizes < MaxFinalizes
  /\ pbCall.calls < MaxCalls
  /\ \E out \in {finalize(pb)} : \E backEndReturns \in BOOLEAN :
       /\ CallOn(out)
       /\ presentation' =
            IF out.result.st = "built" /\ ~out.result.proof.sound /\ ~backEndReturns
              THEN Thrown("back end") ELSE out.result
       /\ pbCall' = [pbCall EXCEPT !.calls = @ + 1, !.finalizes = @ + 1]

\* builder.finalize() on a builder that was finalized before, whether that call
\* returned or threw
FinalizeAgain ==
  /\ pbCall.finalizes >= 1
  /\ pbCall.finalizes < MaxFinalizes + MaxRetries
  /\ pbCall.calls < MaxCalls
  /\ \E out \in {finalize(pb)} : \E backEndReturns \in BOOLEAN :
       /\ CallOn(out)
       /\ presentation' =
            IF out.result.st = "built" /\ ~out.result.proof.sound /\ ~backEndReturns
              THEN Thrown("back end") ELSE out.result
       /\ pbCall' = [pbCall EXCEPT !.calls = @ + 1, !.finalizes = @ + 1]

\* builder.nonce = nonce
SetNonce == \E nonce \in Nonces :
  /\ CallOn(setBuilderNonce(pb, nonce))
  /\ Counted
  /\ UNCHANGED presentation

\* builder.context = context
SetBuilderContext == \E context \in Contexts :
  /\ CallOn(setBuilderContext(pb, context))
  /\ Counted
  /\ UNCHANGED presentation

\* builder.addCredential(credential, pk) with the credentials of two issuers
AddCredentialOfTwoIssuers == \E c \in OfTwoIssuers :
  /\ Len(pb.credentials) < MaxCreds
  /\ CallOn(addCredential(pb, c, IssuerKey(c)))
  /\ Recorded("addCredential", {<<c, IssuerKey(c)>>}, addCredential(pb, c, IssuerKey(c)))
  /\ UNCHANGED presentation

\* spec.forPresentation()
forPresentation(spec) == [credentials |-> spec.credentials]

\* builder.toJSON(), before JSON.stringify and the base58 encoding of the bytes
presentationToJSON(b, proof) ==
  [version |-> VERSION, context |-> b.context, nonce |-> b.nonce,
   spec |-> forPresentation(b.spec), proof |-> proof]

NotSerialized == [st |-> "none"]

\* builder.toJSON() of a builder whose finalize has set its proof
PresentationToJSON ==
  /\ presentation.st = "built"
  /\ serialized' = [st |-> "done", json |-> presentationToJSON(pb, presentation.proof)]
  /\ UNCHANGED <<accVars, histVars, witVars, schemaVars, credVars, presVars,
                 tsVars, quasiVars, proofVars, blindVars, concVars, typeVars, psVars>>

\* The statements a verifier makes of a presentation and of the public keys of
\* the issuers, one for each credential
StatementsWith(p, pks) ==
  [s \in DOMAIN p.statements |->
     IF p.statements[s].kind = "bbsSignature"
       THEN [p.statements[s] EXCEPT !.pk = pks[s]] ELSE p.statements[s]]

\* presentation.verify(pks) with the nonce of the verifier
presentationVerify(p, pks, nonce) ==
  verifyUsingQuasiProofSpec(
    p.proof, QuasiProofSpecG1(StatementsWith(p, pks), p.metaStatements, <<>>, p.context),
    nonce)

NotChecked == [st |-> "none"]

\* The public keys of the issuers of the credentials of the builder
IssuerKeys == [i \in 1..Len(pb.credentials) |-> PkAt(pb, i - 1)]

\* The verification of the presentation with the keys of the issuers, or with
\* one key for all, and a nonce or none
VerifyPresentation ==
  \E nonce \in Nonces \cup {Undefined},
     pks \in {IssuerKeys, [i \in 1..Len(pb.credentials) |-> 1]} :
    /\ presentation.st = "built"
    /\ verification' = [st |-> "done", nonce |-> nonce, pks |-> pks,
                   verified |-> presentationVerify(presentation, pks, nonce)]
    /\ UNCHANGED <<accVars, histVars, witVars, schemaVars, credVars, presVars,
                   tsVars, quasiVars, blindVars, jsonVars, concVars, typeVars, psVars>>

(***************************************************************************)
(* A quasi proof spec built call by call, and the proof spec made directly *)
(* of what the calls were given.                                           *)
(***************************************************************************)
MaxSpecItems == 2

\* A builder with two credentials of two issuers, whose signature statements
\* and witnesses are the ones given to the quasi proof spec
TwoCredentials ==
  addCredential(addCredential(NewPresentationBuilder, 1, 1).b, 4, 2).b

\* The signature statement and the witness of each of the two credentials
StatementsGiven == [i \in 0..1 |-> Presented(TwoCredentials, i)]

\* The witness equalities given: the names of the two credentials, which are
\* equal, and the name of one and the SSN of the other, which are not
MetaStatementsGiven ==
  {EqualityWitnessEq(TwoCredentials, <<(<<0, NAME_KEY>>), (<<1, NAME_KEY>>)>>),
   EqualityWitnessEq(TwoCredentials, <<(<<0, NAME_KEY>>), (<<1, SSN_KEY>>)>>)}

SetupParamsGiven == {[value |-> 1], [value |-> 2]}

NewQuasiProofSpecG1 == QuasiProofSpecG1(<<>>, <<>>, <<>>, Undefined)

NothingGiven ==
  [statements |-> <<>>, metaStatements |-> <<>>, setupParams |-> <<>>,
   context |-> Undefined, witnesses |-> <<>>]

NoQuasiCall == [op |-> "none", returned |-> 0 - 1]

\* No proof spec made of the quasi proof spec since its last change
NotMaterialized == [st |-> "none"]

QuasiCall(op, out) ==
  /\ quasi' = out.q
  /\ qOut' = [op |-> op, returned |-> out.returned]
  /\ UNCHANGED <<accVars, histVars, witVars, schemaVars, credVars, presVars, tsVars, proofVars, blindVars, jsonVars, concVars, typeVars, psVars>>

\* The statements are given in the order of the credentials, over again
AddStatement == \E i \in {Len(quasi.statements) % 2} :
  /\ Len(quasi.statements) < MaxSpecItems
  /\ QuasiCall("addStatement", addStatement(quasi, StatementsGiven[i].statement))
  /\ passed' = [passed EXCEPT
                 !.statements = Append(@, StatementsGiven[i].statement),
                 !.witnesses = Append(@, StatementsGiven[i].witness)]
  /\ materialized' = NotMaterialized

AddMetaStatement == \E metaStatement \in MetaStatementsGiven :
  /\ Len(quasi.metaStatements) < MaxSpecItems
  /\ QuasiCall("addMetaStatement", addMetaStatement(quasi, metaStatement))
  /\ passed' = [passed EXCEPT !.metaStatements = Append(@, metaStatement)]
  /\ materialized' = NotMaterialized

AddSetupParam == \E setupParam \in SetupParamsGiven :
  /\ Len(quasi.setupParams) < MaxSpecItems
  /\ QuasiCall("addSetupParam", addSetupParam(quasi, setupParam))
  /\ passed' = [passed EXCEPT !.setupParams = Append(@, setupParam)]
  /\ materialized' = NotMaterialized

SetContext == \E context \in Contexts :
  /\ QuasiCall("setContext", setContext(quasi, context))
  /\ passed' = [passed EXCEPT !.context = context]
  /\ materialized' = NotMaterialized

\* quasi.toProofSpec() next to new ProofSpecG1(...) of what was given, a proof
\* generated with each for a nonce, and each proof verified with each for a nonce
Materialize ==
  \E nonce \in {Undefined, Bytes(1)}, verifierNonce \in {Undefined, Bytes(1)} :
    LET direct == ProofSpecG1(passed.statements, passed.metaStatements,
                              passed.setupParams, passed.context)
        proofQuasi == generateUsingQuasiProofSpec(quasi, passed.witnesses, nonce)
        proofDirect == generate(direct, passed.witnesses, nonce)
    IN /\ materialized' =
            [st |-> "done", spec |-> toProofSpec(quasi), direct |-> direct,
             proofQuasi |-> proofQuasi, proofDirect |-> proofDirect,
             nonce |-> nonce, verifierNonce |-> verifierNonce,
             verified |->
               {verifyUsingQuasiProofSpec(proofQuasi, quasi, verifierNonce),
                verifyUsingQuasiProofSpec(proofDirect, quasi, verifierNonce),
                proofVerify(proofQuasi, direct, verifierNonce),
                proofVerify(proofDirect, direct, verifierNonce)}]
       /\ UNCHANGED <<quasi, passed, qOut>>
       /\ UNCHANGED <<accVars, histVars, witVars, schemaVars, credVars, presVars, tsVars, proofVars, blindVars, jsonVars, concVars, typeVars, psVars>>

(***************************************************************************)
(* Blinded credential requests: the request of the holder over the         *)
(* attributes to blind, the blinded credential of the issuer and the        *)
(* credential the holder makes of it.                                       *)
(***************************************************************************)
Null == [Undefined EXCEPT !.t = "null"]

\* unflatten of the flattened names of an object, each with null
RECURSIVE Nulled(_)
Nulled(o) ==
  IF o.t = "object" /\ o.kv # <<>>
    THEN Obj([i \in DOMAIN o.kv |-> KV(o.kv[i].k, Nulled(o.kv[i].v))])
    ELSE Null

\* The subject of the issuer with the blinded subject merged into it, object by
\* object
RECURSIVE DeepMerge(_, _)
RECURSIVE MergeEntries(_, _, _)
DeepMerge(a, b) ==
  IF a.t = "object" /\ b.t = "object" THEN Obj(MergeEntries(a.kv, b.kv, 1)) ELSE b

MergeEntries(kv, more, i) ==
  IF i > Len(more) THEN kv
  ELSE MergeEntries(Put(kv, more[i].k,
                        IF more[i].k \in Keys(kv)
                          THEN DeepMerge(Get(Obj(kv), more[i].k), more[i].v)
                          ELSE more[i].v),
                    more, i + 1)

\* The schemas of the credentials requested: a flat and a nested subject, each
\* without and with a status
BlindSchemas ==
  <<CredentialSchema(JsonSchemaOf(<<KV(SUBJECT_STR, FlatSubjectNode)>>),
                     AsPartial(DefaultSchemaParsingOpts)),
    CredentialSchema(JsonSchemaOf(<<KV(SUBJECT_STR, FlatSubjectNode),
                                    KV(STATUS_STR, statusAsJsonSchema)>>),
                     AsPartial(DefaultSchemaParsingOpts)),
    CredentialSchema(JsonSchemaOf(<<KV(SUBJECT_STR, NestedSubjectNode)>>),
                     AsPartial(DefaultSchemaParsingOpts)),
    CredentialSchema(JsonSchemaOf(<<KV(SUBJECT_STR, NestedSubjectNode),
                                    KV(STATUS_STR, statusAsJsonSchema)>>),
                     AsPartial(DefaultSchemaParsingOpts))>>

\* The subjects the holder blinds and the subjects the issuer sets: parts of the
\* flat subject and parts of the nested subject
SubjectsToBlind ==
  {Obj(<<KV(SSN_KEY, Str(SMITH))>>),
   Obj(<<KV(SSN_KEY, Str(JANE))>>),
   Obj(<<KV(NAME_KEY, Str(JANE))>>),
   Obj(<<KV(SSN_KEY, Obj(<<KV(SSN_KEY, Num(IntNum(3)))>>))>>),
   Obj(<<KV(NAME_KEY, Str(JOHN)), KV(SSN_KEY, Obj(<<KV(NAME_KEY, Str(SMITH))>>))>>)}

IssuerSubjects ==
  {Obj(<<KV(NAME_KEY, Str(JOHN))>>),
   Obj(<<KV(SSN_KEY, Str(SMITH))>>),
   Obj(<<KV(NAME_KEY, Str(JOHN)), KV(SSN_KEY, Obj(<<KV(NAME_KEY, Str(SMITH))>>))>>),
   Obj(<<KV(SSN_KEY, Obj(<<KV(SSN_KEY, Num(IntNum(3)))>>))>>)}

Schemes == {"BBS", "BBS+"}

\* { [SUBJECT_STR]: blindedSubject }
UnderSubject(blindedSubject) == Obj(<<KV(SUBJECT_STR, blindedSubject)>>)

\* The positions of names in the flattened names of a schema, and the scalars of
\* an encoded object at these positions
PositionsOf(schema, names) ==
  {indexOf(flatten(schema)[1], names[i]) : i \in DOMAIN names}

ScalarsAt(schema, encoded) ==
  [p \in PositionsOf(schema, encoded[1]) |->
     encoded[2][CHOOSE i \in DOMAIN encoded[1] :
                  indexOf(flatten(schema)[1], encoded[1][i]) = p]]

\* newReqBuilder(schema, subjectToBlind)
newReqBuilder(schema, subjectToBlind) ==
  [schema |-> schema, subjectToBlind |-> subjectToBlind]

\* reqBuilder.finalize(): the request, with the commitment to the encoded blinded
\* attributes at their positions in the flattened schema, the proof of knowledge
\* of what is committed and the declaration of the blinded attributes; and the
\* blinding of the commitment, none for BBS
finalizeRequest(b, scheme, fresh) ==
  With(encodeMessageObject(BlindSchemas[b.schema].encoder,
                           UnderSubject(b.subjectToBlind)).val, LAMBDA encoded :
  With([blinding |-> IF scheme = "BBS" THEN Undefined ELSE fresh,
        msgs |-> ScalarsAt(BlindSchemas[b.schema], encoded)], LAMBDA commitment :
    [req |-> [schema |-> b.schema, scheme |-> scheme, commitment |-> commitment,
              blindedAttributes |-> UnderSubject(Nulled(b.subjectToBlind)),
              proof |-> [commitment |-> commitment, sound |-> TRUE]],
     blinding |-> commitment.blinding]))

\* req.verify(pks) of a request that presents no credential
requestVerify(req) == req.proof.sound /\ req.proof.commitment = req.commitment

\* req.generateBlindedCredentialBuilder()
generateBlindedCredentialBuilder(req) ==
  [schema |-> req.schema, commitment |-> req.commitment,
   blindedNames |-> FlattenedNames(req.blindedAttributes),
   subject |-> Undefined, credStatus |-> Undefined]

\* blindedCredBuilder.sign(secretKey): the attributes of the issuer and the
\* blinded ones are the attributes of the schema, each once; the blind signature
\* is made of the commitment and the encoded attributes of the issuer
blindSign(builder, secretKey) ==
  With(BlindSchemas[builder.schema], LAMBDA schema :
  With(serializeForSigning(VERSION, schema, builder.subject, builder.credStatus),
       LAMBDA s :
  With(FlattenedNames(s) \o builder.blindedNames, LAMBDA names :
    IF \/ SortStrings({names[i] : i \in DOMAIN names}) # flatten(schema)[1]
       \/ Len(names) # Len(flatten(schema)[1])
      THEN NoCredential("threw")
    ELSE With(encodeMessageObject(schema.encoder, s), LAMBDA encoded :
           IF ~encoded.ok THEN NoCredential("threw")
           ELSE [st |-> "signed", schema |-> builder.schema,
                 subject |-> builder.subject, credStatus |-> builder.credStatus,
                 signature |-> [by |-> secretKey, commitment |-> builder.commitment,
                                known |-> ScalarsAt(schema, encoded.val)]]))))

\* The unblinding of a blind signature that leaves the blinding in
unblindKeepingBlinding(signature, blinding, msgCount) ==
  [by |-> signature.by,
   on |-> [i \in 1..msgCount |->
             IF (i - 1) \in DOMAIN signature.commitment.msgs
               THEN signature.commitment.msgs[i - 1] ELSE signature.known[i - 1]],
   flipped |-> IF signature.commitment.blinding = Undefined THEN {} ELSE {1}]

\* The unblinding of a blind signature: a signature on the committed and the
\* known messages when the blinding is that of the commitment, and no signature
\* on them with another
unblind(signature, blinding, msgCount) ==
  [by |-> signature.by,
   on |-> [i \in 1..msgCount |->
             IF (i - 1) \in DOMAIN signature.commitment.msgs
               THEN signature.commitment.msgs[i - 1] ELSE signature.known[i - 1]],
   flipped |-> IF blinding = signature.commitment.blinding THEN {} ELSE {1}]

\* blindedCred.toCredential(blindedSubject, blinding)
toCredential(blindedCred, blindedSubject, blinding) ==
  With(BlindSchemas[blindedCred.schema], LAMBDA schema :
    [st |-> "signed", version |-> VERSION, schema |-> schema,
     subject |-> DeepMerge(blindedCred.subject, blindedSubject),
     credStatus |-> blindedCred.credStatus,
     signature |-> unblind(blindedCred.signature, blinding, Len(flatten(schema)[1]))])

NoBlind ==
  [stage |-> "none", builder |-> Undefined, req |-> Undefined, blinding |-> Undefined,
   credBuilder |-> Undefined, sk |-> 0, blindedCred |-> Undefined,
   passed |-> Undefined, credential |-> Undefined]

BlindStep(next) ==
  /\ blind' = next
  /\ UNCHANGED <<accVars, histVars, witVars, schemaVars, credVars, presVars,
                 tsVars, quasiVars, proofVars, jsonVars, concVars, typeVars, psVars>>

\* newReqBuilder(schema, subjectToBlind) with a subject of the schema
NewReqBuilder == \E schema \in DOMAIN BlindSchemas : \E subjectToBlind \in SubjectsToBlind :
  /\ blind.stage = "none"
  /\ Keys(Flat(UnderSubject(subjectToBlind)))
       \subseteq {flatten(BlindSchemas[schema])[1][i] :
                    i \in DOMAIN flatten(BlindSchemas[schema])[1]}
  /\ BlindStep([blind EXCEPT !.stage = "builder",
                             !.builder = newReqBuilder(schema, subjectToBlind)])

\* finalize(reqBuilder)
FinalizeRequest == \E scheme \in Schemes : \E fresh \in Nonces :
  /\ blind.stage = "builder"
  /\ LET out == finalizeRequest(blind.builder, scheme, fresh)
     IN BlindStep([blind EXCEPT !.stage = "requested", !.req = out.req,
                                !.blinding = out.blinding])

\* req.generateBlindedCredentialBuilder()
GenerateBlindedCredentialBuilder ==
  /\ blind.stage = "requested"
  /\ BlindStep([blind EXCEPT !.stage = "issuing",
                             !.credBuilder = generateBlindedCredentialBuilder(blind.req)])

\* blindedCredBuilder.subject = subject
SetIssuerSubject == \E subject \in IssuerSubjects :
  /\ blind.stage = "issuing"
  /\ blind.credBuilder.subject = Undefined
  /\ BlindStep([blind EXCEPT !.credBuilder.subject = subject])

\* blindedCredBuilder.setCredentialStatus(registryId, revCheck, memberValue)
SetIssuerStatus ==
  /\ blind.stage = "issuing"
  /\ blind.credBuilder.credStatus = Undefined
  /\ BlindStep([blind EXCEPT !.credBuilder.credStatus =
                               setCredentialStatus(ACCUM_ID, MEM_CHECK_STR, MEMBER_ID)])

\* blindedCredBuilder.sign(sk)
BlindSign == \E secretKey \in 1..NumKeys :
  /\ blind.stage = "issuing"
  /\ LET blindedCred == blindSign(blind.credBuilder, secretKey)
     IN BlindStep([blind EXCEPT
                     !.stage = IF blindedCred.st = "signed" THEN "signed" ELSE "threw",
                     !.sk = secretKey, !.blindedCred = blindedCred])

\* blindedCred.toCredential(blindedSubject, blinding), with the blinded subject
\* or another and the blinding of the request, another or none
ToCredential ==
  \E blindedSubject \in SubjectsToBlind : \E blinding \in Nonces \cup {Undefined} :
    /\ blind.stage = "signed"
    /\ FlattenedNames(UnderSubject(blindedSubject))
         = FlattenedNames(blind.req.blindedAttributes)
    /\ BlindStep([blind EXCEPT
                    !.stage = "unblinded",
                    !.passed = [blindedSubject |-> blindedSubject, blinding |-> blinding],
                    !.credential = toCredential(blind.blindedCred, blindedSubject, blinding)])

NextBlind ==
  \/ NewReqBuilder
  \/ FinalizeRequest
  \/ GenerateBlindedCredentialBuilder
  \/ SetIssuerSubject
  \/ SetIssuerStatus
  \/ BlindSign
  \/ ToCredential

(***************************************************************************)
(* Threshold signing: the phases of a signer.                              *)
(***************************************************************************)
\* The other signers, and the sizes of a batch of signatures
OtherSigners == {2}
SigBatchSizes == {1, 2}

\* new ThresholdSigner(id, others, sigBatchSize, protocolId)
ThresholdSigner(id, others, sigBatchSize, protocolId) ==
  [id |-> id, others |-> others, sigBatchSize |-> sigBatchSize, protocolId |-> protocolId,
   comms |-> Undefined, commsForZero |-> Undefined, msg1s |-> Undefined,
   msg2s |-> Undefined, round1State |-> Undefined, round1Output |-> Undefined,
   round2State |-> Undefined, round2Output |-> Undefined]

hasStarted(s) == s.round1State # Undefined

hasFinishedRound1(s) == s.round1Output # Undefined

hasStartedRound2(s) == s.round2State # Undefined

hasFinishedRound2(s) == s.round2Output # Undefined

\* The outcome of a call on a signer: the signer after it and the error, if any
TsReturned(s) == [s |-> s, threw |-> FALSE, error |-> ""]

TsThrew(s, error) == [s |-> s, threw |-> TRUE, error |-> error]

\* ensureRound1Started and the others: the error thrown, "" when none is
ensureRound1Started(s) == IF ~hasStarted(s) THEN "Round 1 has not started yet" ELSE ""

ensureRound1Finished(s) == IF ~hasFinishedRound1(s) THEN "Round 1 has not finished yet" ELSE ""

ensureRound2Started(s) == IF ~hasStartedRound2(s) THEN "Round 2 has not started yet" ELSE ""

\* A method of the signer that first checks a phase and then calls the back end,
\* which returns or throws: nothing is assigned when either throws
Guarded(s, ensured, backEndReturns, after) ==
  IF ensured # "" THEN TsThrew(s, ensured)
  ELSE IF ~backEndReturns THEN TsThrew(s, "back end")
  ELSE TsReturned(after)

\* startRound1 that forgets the output of an earlier round 1
startRound1Afresh(s, backEndReturns) ==
  Guarded(s, "", backEndReturns,
          [s EXCEPT !.round1State = [commitments |-> {}, shares |-> {}],
                    !.round1Output = Undefined,
                    !.comms = [by |-> s.id],
                    !.commsForZero = [i \in s.others |-> [by |-> s.id, to |-> i]]])

startRound1(s, backEndReturns) ==
  Guarded(s, "", backEndReturns,
          [s EXCEPT !.round1State = [commitments |-> {}, shares |-> {}],
                    !.comms = [by |-> s.id],
                    !.commsForZero = [i \in s.others |-> [by |-> s.id, to |-> i]]])

\* processReceivedCommitments that does not check that round 1 has started
processReceivedCommitmentsUnchecked(s, senderId, backEndReturns) ==
  Guarded(s, "", backEndReturns,
          [s EXCEPT !.round1State =
             IF s.round1State = Undefined THEN [commitments |-> {senderId}, shares |-> {}]
             ELSE [s.round1State EXCEPT !.commitments = @ \cup {senderId}]])

processReceivedCommitments(s, senderId, backEndReturns) ==
  Guarded(s, ensureRound1Started(s), backEndReturns,
          [s EXCEPT !.round1State.commitments = @ \cup {senderId}])

getSharesForOtherSigner(s, signerId, backEndReturns) ==
  Guarded(s, ensureRound1Started(s), backEndReturns, s)

getSharesForOtherSigners(s, signerIds, backEndReturns) ==
  Guarded(s, ensureRound1Started(s), backEndReturns, s)

processReceivedShares(s, senderId, backEndReturns) ==
  Guarded(s, ensureRound1Started(s), backEndReturns,
          [s EXCEPT !.round1State.shares = @ \cup {senderId}])

finishR1(s, backEndReturns) ==
  Guarded(s, ensureRound1Started(s), backEndReturns,
          [s EXCEPT !.round1Output = [by |-> s.id, round |-> 1]])

startRound2(s, backEndReturns) ==
  Guarded(s, ensureRound1Finished(s), backEndReturns,
          [s EXCEPT !.round2State = [msg1s |-> {}, msg2s |-> {}],
                    !.msg1s = [i \in s.others |-> [by |-> s.id, to |-> i]]])

processReceivedMsg1(s, senderId, backEndReturns) ==
  Guarded(s, ensureRound2Started(s), backEndReturns,
          [s EXCEPT !.round2State.msg1s = @ \cup {senderId},
                    !.msg2s = IF @ = Undefined
                                THEN [i \in {senderId} |-> [by |-> s.id, to |-> i]]
                                ELSE [i \in DOMAIN @ \cup {senderId} |-> [by |-> s.id, to |-> i]]])

processReceivedMsg2(s, senderId, backEndReturns) ==
  Guarded(s, ensureRound2Started(s), backEndReturns,
          [s EXCEPT !.round2State.msg2s = @ \cup {senderId}])

\* finishRound2 that asks for round 1 to have finished only
finishRound2AfterRound1(s, backEndReturns) ==
  Guarded(s, ensureRound1Finished(s), backEndReturns,
          [s EXCEPT !.round2Output = [by |-> s.id, round |-> 2]])

finishRound2(s, backEndReturns) ==
  Guarded(s, ensureRound2Started(s), backEndReturns,
          [s EXCEPT !.round2Output = [by |-> s.id, round |-> 2]])

\* The methods that start or finish a round
Phases == {"startRound1", "finishR1", "startRound2", "finishRound2"}

NoSignerCall == [op |-> "none", threw |-> FALSE, error |-> "", tick |-> 0]

\* A call on the signer: the signer after it, the call and its outcome, and the
\* method among those that have returned
SignerCall(op, out) ==
  /\ signer' = out.s
  /\ tsCall' = [op |-> op, threw |-> out.threw, error |-> out.error,
                tick |-> 1 - tsCall.tick]
  /\ tsLog' = IF out.threw \/ op \notin Phases \/ \E i \in DOMAIN tsLog : tsLog[i] = op
                THEN tsLog ELSE Append(tsLog, op)
  /\ UNCHANGED <<accVars, histVars, witVars, schemaVars, credVars, presVars, quasiVars, proofVars, blindVars, jsonVars, concVars, typeVars, psVars>>

StartRound1 == \E backEndReturns \in BOOLEAN :
  SignerCall("startRound1", startRound1(signer, backEndReturns))

ProcessReceivedCommitments == \E senderId \in signer.others, backEndReturns \in BOOLEAN :
  SignerCall("processReceivedCommitments",
             processReceivedCommitments(signer, senderId, backEndReturns))

GetSharesForOtherSigner == \E signerId \in signer.others, backEndReturns \in BOOLEAN :
  SignerCall("getSharesForOtherSigner",
             getSharesForOtherSigner(signer, signerId, backEndReturns))

GetSharesForOtherSigners == \E backEndReturns \in BOOLEAN :
  SignerCall("getSharesForOtherSigners",
             getSharesForOtherSigners(signer, signer.others, backEndReturns))

ProcessReceivedShares == \E senderId \in signer.others, backEndReturns \in BOOLEAN :
  SignerCall("processReceivedShares",
             processReceivedShares(signer, senderId, backEndReturns))

FinishR1 == \E backEndReturns \in BOOLEAN :
  SignerCall("finishR1", finishR1(signer, backEndReturns))

StartRound2 == \E backEndReturns \in BOOLEAN :
  SignerCall("startRound2", startRound2(signer, backEndReturns))

ProcessReceivedMsg1 == \E senderId \in signer.others, backEndReturns \in BOOLEAN :
  SignerCall("processReceivedMsg1", processReceivedMsg1(signer, senderId, backEndReturns))

ProcessReceivedMsg2 == \E senderId \in signer.others, backEndReturns \in BOOLEAN :
  SignerCall("processReceivedMsg2", processReceivedMsg2(signer, senderId, backEndReturns))

FinishRound2 == \E backEndReturns \in BOOLEAN :
  SignerCall("finishRound2", finishRound2(signer, backEndReturns))

(***************************************************************************)
(* Initial states and specifications.                                      *)
(***************************************************************************)
NoDocument ==
  /\ jsonSchema = Undefined
  /\ parsingOpts = [useDefaults |-> {}, defaultMinimumInteger |-> {},
                    defaultDecimalPlaces |-> {}]

NothingBuilt ==
  /\ cs = NoSchema("none")
  /\ flattened = <<>>
  /\ csReordered = NoSchema("none")
  /\ flattenedReordered = <<>>
  /\ j = NoJSON
  /\ recreated = NoSchema("none")
  /\ credBuilder = NewCredentialBuilder
  /\ cred = NoCredential("none")
  /\ issued = NoCredential("none")
  /\ verified = NotVerified
  /\ pb = NewPresentationBuilder
  /\ pbCall = NoCall
  /\ presentation = NoPresentation

NoSigner ==
  /\ signer = Undefined
  /\ tsCall = NoSignerCall
  /\ tsLog = <<>>

NoQuasi ==
  /\ quasi = NewQuasiProofSpecG1
  /\ passed = NothingGiven
  /\ qOut = NoQuasiCall
  /\ materialized = NotMaterialized

NothingLater ==
  /\ NoSigner
  /\ NoQuasi
  /\ verification = NotChecked
  /\ blind = NoBlind
  /\ serialized = NotSerialized
  /\ inFlight = NoneInFlight
  /\ typed = NotTyped
  /\ sigParams = NoParams

EmptyAccumulator ==
  /\ accState = {}
  /\ accumulated = EmptyAccumulated
  /\ added = {}
  /\ midway = {}
  /\ lastCall = [op |-> "none", outcome |-> "ok", mixed |-> FALSE, both |-> FALSE]
  /\ wit = NoWit
  /\ witUpd = NoWit
  /\ witAt = EmptyAccumulated
  /\ chainLen = 0

InitAcc == EmptyAccumulator /\ NoDocument /\ NothingBuilt /\ NothingLater

\* The documents of the typing specification: a credentialSubject of one leaf of
\* every kind or of two leaves, without and with a credentialStatus, without and
\* with a cryptoVersion of its own
TypedSchemas ==
  {JsonSchemaOf(<<KV(SUBJECT_STR, subject)>> \o status \o top) :
     subject \in {ObjectNode(<<KV(NAME_KEY, l)>>) : l \in LeafNodes}
                   \cup {ObjectNode(<<KV(NAME_KEY, l1), KV(SSN_KEY, l2)>>) :
                           l1 \in FewLeafNodes, l2 \in SomeLeafNodes},
     status \in {<<>>, <<KV(STATUS_STR, statusAsJsonSchema)>>},
     top \in {<<>>, <<KV(CRYPTO_VERSION_STR, IntegerNode({IntNum(0)}))>>}}

InitTypes ==
  /\ EmptyAccumulator
  /\ jsonSchema \in TypedSchemas
  /\ parsingOpts \in ParsingOptions
  /\ NothingBuilt
  /\ NothingLater

InitSchema ==
  /\ EmptyAccumulator
  /\ jsonSchema \in JsonSchemas
  /\ parsingOpts \in ParsingOptions
  /\ NothingBuilt
  /\ NothingLater

InitCred ==
  /\ EmptyAccumulator
  /\ jsonSchema \in CredSchemas
  /\ parsingOpts = [useDefaults |-> {}, defaultMinimumInteger |-> {},
                    defaultDecimalPlaces |-> {}]
  /\ NothingBuilt
  /\ NothingLater

InitPres == EmptyAccumulator /\ NoDocument /\ NothingBuilt /\ NothingLater

InitParse ==
  /\ EmptyAccumulator
  /\ jsonSchema \in ParseSchemas
  /\ parsingOpts \in ParseOptions
  /\ NothingBuilt
  /\ NothingLater

InitSigner ==
  /\ EmptyAccumulator /\ NoDocument /\ NothingBuilt
  /\ signer \in {ThresholdSigner(1, OtherSigners, sigBatchSize, 1) :
                   sigBatchSize \in SigBatchSizes}
  /\ tsCall = NoSignerCall
  /\ tsLog = <<>>
  /\ NoQuasi
  /\ verification = NotChecked
  /\ blind = NoBlind
  /\ serialized = NotSerialized
  /\ inFlight = NoneInFlight
  /\ typed = NotTyped
  /\ sigParams = NoParams

InitQuasi == EmptyAccumulator /\ NoDocument /\ NothingBuilt /\ NothingLater

NextAcc ==
  \/ AddTallied
  \/ RemoveTallied
  \/ AddBatchTallied
  \/ RemoveBatchTallied
  \/ AddRemoveBatchesTallied

NextCalls ==
  \/ AddRecorded
  \/ RemoveRecorded
  \/ AddBatchRecorded
  \/ RemoveBatchRecorded
  \/ AddRemoveBatchesRecorded

NextFlatten ==
  \/ Construct
  \/ Flatten
  \/ ConstructReordered
  \/ FlattenReordered

NextParse ==
  \/ Construct
  \/ Flatten

NextCred ==
  \/ Construct
  \/ SetSubject
  \/ SetCredentialStatus
  \/ Sign
  \/ Verify
  \/ CheckJsonConvForCred
  \/ MutateSignature
  \/ MutateAttribute

NextBuilder ==
  \/ AddCredentialRecorded
  \/ MarkAttributesRevealedRecorded
  \/ MarkAttributesEqualRecorded
  \/ AddAccumInfoForCredStatusRecorded

NextPres ==
  \/ AddCredentialRecorded
  \/ MarkAttributesRevealed
  \/ MarkAttributesEqual
  \/ AddAccumInfoForCredStatus
  \/ Finalize

NextJSON ==
  \/ Construct
  \/ ToJSON
  \/ SetVersion
  \/ FromJSON

SpecAcc == InitAcc /\ [][NextAcc]_vars

SpecCalls == InitAcc /\ [][NextCalls]_vars

SpecWit == InitAcc /\ [][NextWit]_vars

SpecFlatten == InitSchema /\ [][NextFlatten]_vars

SpecParse == InitParse /\ [][NextParse]_vars

SpecCred == InitCred /\ [][NextCred]_vars

SpecBuilder == InitPres /\ [][NextBuilder]_vars

SpecPres == InitPres /\ [][NextPres]_vars

NextSigner ==
  \/ StartRound1
  \/ ProcessReceivedCommitments
  \/ GetSharesForOtherSigner
  \/ GetSharesForOtherSigners
  \/ ProcessReceivedShares
  \/ FinishR1
  \/ StartRound2
  \/ ProcessReceivedMsg1
  \/ ProcessReceivedMsg2
  \/ FinishRound2

SpecSigner == InitSigner /\ [][NextSigner]_vars

NextQuasi ==
  \/ AddStatement
  \/ AddMetaStatement
  \/ AddSetupParam
  \/ SetContext
  \/ Materialize

SpecQuasi == InitQuasi /\ [][NextQuasi]_vars

NextProof ==
  \/ AddCredentialOfTwoIssuers
  \/ MarkAttributesEqual
  \/ SetNonce
  \/ SetBuilderContext
  \/ Finalize
  \/ VerifyPresentation

SpecProof == InitPres /\ [][NextProof]_vars

SpecBlind == InitPres /\ [][NextBlind]_vars

NextRetry ==
  \/ AddCredentialRecorded
  \/ AddAccumInfoForCredStatus
  \/ Finalize
  \/ FinalizeAgain

SpecRetry == InitPres /\ [][NextRetry]_vars

NextParams ==
  \/ NewParams
  \/ Adapt
  \/ AdaptAdapted
  \/ GetSigParamsOfRequiredSize

SpecParams == InitAcc /\ [][NextParams]_vars

NextTypes ==
  \/ Construct
  \/ Flatten
  \/ TypeOfName

SpecTypes == InitTypes /\ [][NextTypes]_vars

NextConc ==
  \/ CallMutation
  \/ ResumeAfterRead
  \/ ResumeAfterWrite

SpecConc == InitAcc /\ [][NextConc]_vars

NextStatus ==
  \/ AddCredentialWithAStatus
  \/ AddAccumInfoForCredStatus
  \/ Finalize

SpecStatus == InitPres /\ [][NextStatus]_vars

NextSerial ==
  \/ AddCredentialOfTwoIssuers
  \/ MarkAttributesEqual
  \/ Finalize
  \/ PresentationToJSON

SpecSerial == InitPres /\ [][NextSerial]_vars

NextReveal ==
  \/ AddCredentialRecorded
  \/ MarkAttributesRevealedOf
  \/ AddAccumInfoForCredStatus
  \/ Finalize

SpecReveal == InitPres /\ [][NextReveal]_vars

SpecJSON == InitSchema /\ [][NextJSON]_vars

(***************************************************************************)
(* Properties of the accumulator adapter.                                  *)
(***************************************************************************)

C2_FailedAddRemoveChangeNothing ==
  \A e \in Elems :
    /\ has(accState, e) =>
         /\ Outcome(accState, <<e>>, <<>>, addChecked(e)) = "rejected"
         /\ StoreAfter(<<e>>, <<>>, addChecked(e)) = accState
         /\ ValueAfter(<<e>>, <<>>, addChecked(e)) = accumulated
    /\ ~has(accState, e) =>
         /\ Outcome(accState, <<>>, <<e>>, removeChecked(e)) = "rejected"
         /\ StoreAfter(<<>>, <<e>>, removeChecked(e)) = accState
         /\ ValueAfter(<<>>, <<e>>, removeChecked(e)) = accumulated

C2_Witness ==
  /\ lastCall.op \in {"add", "remove"}
  /\ lastCall.outcome = "rejected"
  /\ accState # {}
  /\ accState # Elems

\* C3: in every reachable state, an addBatch naming an element already in the
\* store, and a removeBatch naming one that is not, is rejected and changes the
\* membership of no element.
C3_BatchAllOrNothing ==
  \A xs \in Batches :
    /\ (\E i \in DOMAIN xs : has(accState, xs[i])) =>
         /\ Outcome(accState, xs, <<>>, addBatchChecked(xs)) = "rejected"
         /\ StoreAfter(xs, <<>>, addBatchChecked(xs)) = accState
    /\ (\E i \in DOMAIN xs : ~has(accState, xs[i])) =>
         /\ Outcome(accState, <<>>, xs, removeBatchChecked(xs)) = "rejected"
         /\ StoreAfter(<<>>, xs, removeBatchChecked(xs)) = accState

C3_Witness ==
  /\ lastCall.op \in {"addBatch", "removeBatch"}
  /\ lastCall.outcome = "rejected"
  /\ lastCall.mixed

\* C4: in every reachable state, a successful addRemoveBatches(adds, rems) gives
\* a store that holds every element of adds and no element of rems and agrees
\* with the store before on every other element.
C4_AddRemoveBatchesPost ==
  \A p \in BatchPairs :
    LET checked == addRemoveBatchesChecked(p[1], p[2])
        after == StoreAfter(p[1], p[2], checked)
    IN Outcome(accState, p[1], p[2], checked) = "ok" =>
         /\ \A a \in Range(p[1]) : has(after, a)
         /\ \A r \in Range(p[2]) : ~has(after, r)
         /\ \A e \in Elems \ (Range(p[1]) \cup Range(p[2])) :
              has(after, e) <=> has(accState, e)

C4_Witness ==
  /\ lastCall.op = "addRemoveBatches"
  /\ lastCall.outcome = "ok"
  /\ lastCall.both

\* C5 (as stated): the witness with every update info applied verifies against
\* the current value and the witness as generated does not, once the
\* accumulator has gone through at least one batch.
C5_StaleWitnessNeverVerifies ==
  (wit.ok /\ chainLen >= 1) =>
    /\ verifyMembershipWitness(wit.elem, witUpd, accumulated)
    /\ ~verifyMembershipWitness(wit.elem, wit, accumulated)

\* C5 (amended): a witness verifies against the value it was generated at; with
\* every update info applied in order it verifies against the current value; as
\* generated it verifies against the current value only if that value is the
\* one it was generated at (the batches were empty or cancelled each other).
C5_WitnessFollowsUpdates ==
  wit.ok =>
    /\ verifyMembershipWitness(wit.elem, wit, witAt)
    /\ verifyMembershipWitness(wit.elem, witUpd, accumulated)
    /\ verifyMembershipWitness(wit.elem, wit, accumulated) => accumulated = witAt

C5_Witness ==
  /\ wit.ok
  /\ chainLen >= 2
  /\ accumulated # witAt
  /\ verifyMembershipWitness(wit.elem, witUpd, accumulated)
  /\ ~verifyMembershipWitness(wit.elem, wit, accumulated)

(***************************************************************************)
(* Properties of the credential schema.                                    *)
(***************************************************************************)

\* a[n] and b[n] are the same JSON value whatever the order of the keys of objects
RECURSIVE JsonEq(_, _)
JsonEq(a, b) ==
  /\ a.t = b.t
  /\ CASE a.t = "object" ->
            /\ Len(a.kv) = Len(b.kv)
            /\ Keys(a.kv) = Keys(b.kv)
            /\ \A k \in Keys(a.kv) : JsonEq(Get(a, k), Get(b, k))
       [] a.t = "array" ->
            /\ Len(a.items) = Len(b.items)
            /\ \A i \in DOMAIN a.items : JsonEq(a.items[i], b.items[i])
       [] OTHER -> a = b

\* A leaf descriptor: an object none of whose values is an object or an array
IsLeaf(node) ==
  node.t = "object" /\ \A i \in DOMAIN node.kv : node.kv[i].v.t \notin {"object", "array"}

Join(path, key) == IF path = <<>> THEN key ELSE path \o <<46>> \o key

\* The leaves of an internal schema, each with its full dotted path: a child of an
\* object at <parent>.<child>, an item of an array at <parent>.<index>, from 0
RECURSIVE Leaves(_, _)
Leaves(node, path) ==
  IF IsLeaf(node) THEN {<<path, node>>}
  ELSE IF node.t = "object"
    THEN UNION {Leaves(node.kv[i].v, Join(path, node.kv[i].k)) : i \in DOMAIN node.kv}
    ELSE UNION {Leaves(node.items[i], Join(path, DigitChars(Digits(i - 1)))) :
                  i \in DOMAIN node.items}

\* The implicit fields that the schema does not define itself, as leaves
ImplicitLeaves(schema) ==
  {<<f, Obj(<<KV(TYPE_STR, Str(STR_TYPE))>>)>> :
     f \in {CRYPTO_VERSION_STR, SCHEMA_STR} \ Keys(schema.kv)}

Ascending(names) ==
  \A a \in DOMAIN names : \A b \in DOMAIN names : a < b => StrLess(names[a], names[b])

Occurrences(names, name) == Cardinality({n \in DOMAIN names : names[n] = name})

\* C6 (as stated): in every flat form returned by flatten() of a constructed schema
\* the two implicit leaves cryptoVersion and credentialSchema occur once each and
\* are the two leading names (positions 0 and 1).
C6_ImplicitLeavesLead ==
  \A i \in DOMAIN flattened :
    /\ Occurrences(flattened[i][1], CRYPTO_VERSION_STR) = 1
    /\ Occurrences(flattened[i][1], SCHEMA_STR) = 1
    /\ {flattened[i][1][1], flattened[i][1][2]} = {CRYPTO_VERSION_STR, SCHEMA_STR}

\* C6 (amended): every flat form returned by flatten() of a constructed schema has
\* its names in one ascending order (a stable total order), and when the schema
\* defines no top level property named as an implicit field, cryptoVersion and
\* credentialSchema occur once each at the places their spelling gives them:
\* credentialSchema before every credentialStatus and credentialSubject path,
\* cryptoVersion after them.
C6_ImplicitLeavesSorted ==
  \A i \in DOMAIN flattened :
    /\ Ascending(flattened[i][1])
    /\ {CRYPTO_VERSION_STR, SCHEMA_STR} \cap Keys(cs.schema.kv) = {} =>
         /\ Occurrences(flattened[i][1], CRYPTO_VERSION_STR) = 1
         /\ Occurrences(flattened[i][1], SCHEMA_STR) = 1
         /\ \A a \in DOMAIN flattened[i][1] : \A b \in DOMAIN flattened[i][1] :
              /\ \/ StartsWith(flattened[i][1][b], SUBJECT_STR \o <<46>>)
                 \/ StartsWith(flattened[i][1][b], STATUS_STR \o <<46>>)
              => /\ flattened[i][1][a] = SCHEMA_STR => a < b
                 /\ flattened[i][1][a] = CRYPTO_VERSION_STR => b < a

\* A flat form with credentialSchema first, cryptoVersion last and the paths of the
\* status and the subject between them
C6_Witness ==
  \E i \in DOMAIN flattened :
    /\ {CRYPTO_VERSION_STR, SCHEMA_STR} \cap Keys(cs.schema.kv) = {}
    /\ Len(flattened[i][1]) >= 7
    /\ flattened[i][1][1] = SCHEMA_STR
    /\ flattened[i][1][Len(flattened[i][1])] = CRYPTO_VERSION_STR
    /\ StartsWith(flattened[i][1][2], STATUS_STR \o <<46>>)

\* C7: flatten() returns two lists of equal length; the names are the full dotted
\* paths of the leaves of the internal schema (a child at <parent>.<child>, an array
\* item at <parent>.<index> from 0) and the implicit fields, in ascending order, and
\* types[n] is the leaf descriptor at names[n].
C7_NamesAreSortedLeafPaths ==
  \A i \in DOMAIN flattened :
    /\ Len(flattened[i][1]) = Len(flattened[i][2])
    /\ {<<flattened[i][1][n], flattened[i][2][n]>> : n \in DOMAIN flattened[i][1]}
         = Leaves(cs.schema, <<>>) \cup ImplicitLeaves(cs.schema)
    /\ Ascending(flattened[i][1])

\* A flat form of a schema whose subject is an array of two objects
C7_Witness ==
  \E i \in DOMAIN flattened : \E a \in DOMAIN flattened[i][1] :
    /\ flattened[i][1][a] = SUBJECT_STR \o <<46, 48, 46>> \o NAME_KEY
    /\ flattened[i][1][a + 1] = SUBJECT_STR \o <<46, 49, 46>> \o NAME_KEY
    /\ flattened[i][2][a + 1] = Obj(<<KV(TYPE_STR, Str(POSITIVE_INT_TYPE))>>)

\* C8: every call of flatten() on a schema returns the same lists, and a schema
\* constructed from the same document with its keys in another order has the same
\* names in the same order and, name by name, the same leaf descriptor.
C8_FlattenIgnoresKeyOrder ==
  /\ \A a \in DOMAIN flattened : \A b \in DOMAIN flattened : flattened[a] = flattened[b]
  /\ \A a \in DOMAIN flattened : \A b \in DOMAIN flattenedReordered :
       /\ flattened[a][1] = flattenedReordered[b][1]
       /\ Len(flattened[a][2]) = Len(flattenedReordered[b][2])
       /\ \A n \in DOMAIN flattened[a][2] :
            JsonEq(flattened[a][2][n], flattenedReordered[b][2][n])

\* Two calls on a schema and one on a schema whose document and internal schema
\* list their keys in another order
C8_Witness ==
  /\ Len(flattened) >= 2
  /\ flattenedReordered # <<>>
  /\ csReordered.jsonSchema # cs.jsonSchema
  /\ csReordered.schema # cs.schema
  /\ Len(flattened[1][1]) >= 7

\* C9: the schema that fromJSON makes of the toJSON of a constructed schema is
\* constructed, has the same internal schema, the same flatten() result and the same
\* encoder names, and its version is the one the JSON carries.
C9_RoundTrip ==
  recreated.st # "none" =>
    /\ recreated.st = "built"
    /\ recreated.schema = cs.schema
    /\ flatten(recreated) = flatten(cs)
    /\ DOMAIN recreated.encoder.encoders = DOMAIN cs.encoder.encoders
    /\ recreated.version = j.version

\* A schema recreated from a JSON whose version was changed, of a schema with
\* parsing options of its own, a status and a decimal number
C9_Witness ==
  /\ recreated.st = "built"
  /\ recreated.version = OTHER_VERSION
  /\ cs.version = VERSION
  /\ cs.parsingOptions # DefaultSchemaParsingOpts
  /\ Get(cs.schema, STATUS_STR) # Undefined
  /\ \E n \in DOMAIN flatten(recreated)[2] :
       Get(flatten(recreated)[2][n], TYPE_STR) = Str(NUM_TYPE)

\* The properties of the credentialSubject of the document, when it is an object
SubjectProperties == Entries(Get(Get(Get(jsonSchema, PROPERTIES_KEY), SUBJECT_STR), PROPERTIES_KEY))

\* The node of the internal schema for a property of the credentialSubject
Converted(key) == Get(Get(cs.schema, SUBJECT_STR), key)

\* The decimal places that a multipleOf of 10^-k stands for: k
PlacesOf(multipleOf) == Num(IntNum(Len(multipleOf.n.frac)))

\* C10: in a constructed schema an integer leaf with minimum >= 0 is positiveInteger
\* and with minimum < 0 integer{minimum}; a number leaf with minimum >= 0 is
\* positiveDecimalNumber{decimalPlaces} and with minimum < 0
\* decimalNumber{minimum, decimalPlaces}; a $ref to encryptableString is
\* stringReversible with compress false, to encryptableCompString with compress true.
C10_NumericLeavesConverted ==
  cs.st = "built" =>
    \A p \in DOMAIN SubjectProperties :
      LET node == SubjectProperties[p].v
          minimum == Get(node, MINIMUM_KEY)
          multipleOf == Get(node, MULTIPLE_OF_KEY)
          converted == Converted(SubjectProperties[p].k)
      IN /\ Get(node, TYPE_STR) = Str(INT_TYPE) /\ minimum # Undefined =>
              IF ~minimum.n.neg
                THEN converted = Obj(<<KV(TYPE_STR, Str(POSITIVE_INT_TYPE))>>)
                ELSE converted = Obj(<<KV(TYPE_STR, Str(INT_TYPE)),
                                       KV(MINIMUM_KEY, minimum)>>)
         /\ Get(node, TYPE_STR) = Str(NUMBER_STR) /\ minimum # Undefined
              /\ multipleOf # Undefined =>
              IF ~minimum.n.neg
                THEN converted = Obj(<<KV(TYPE_STR, Str(POSITIVE_NUM_TYPE)),
                                       KV(DECIMAL_PLACES_KEY, PlacesOf(multipleOf))>>)
                ELSE converted = Obj(<<KV(TYPE_STR, Str(NUM_TYPE)),
                                       KV(MINIMUM_KEY, minimum),
                                       KV(DECIMAL_PLACES_KEY, PlacesOf(multipleOf))>>)
         /\ Get(node, REF_KEY) = Str(REF_ENCRYPTABLE_STR) =>
              converted = Obj(<<KV(TYPE_STR, Str(STR_REV_TYPE)),
                                KV(COMPRESS_KEY, Bool(FALSE))>>)
         /\ Get(node, REF_KEY) = Str(REF_ENCRYPTABLE_COMP_STR) =>
              converted = Obj(<<KV(TYPE_STR, Str(STR_REV_TYPE)),
                                KV(COMPRESS_KEY, Bool(TRUE))>>)

\* A constructed schema with a number of minimum -100 and multipleOf 0.01, and a $ref
\* to encryptableString
C10_Witness ==
  /\ cs.st = "built"
  /\ Converted(NAME_KEY) = Obj(<<KV(TYPE_STR, Str(NUM_TYPE)),
                                 KV(MINIMUM_KEY, Num(IntNum(0 - 100))),
                                 KV(DECIMAL_PLACES_KEY, Num(IntNum(2)))>>)
  /\ Converted(SSN_KEY) = Obj(<<KV(TYPE_STR, Str(STR_REV_TYPE)),
                                KV(COMPRESS_KEY, Bool(FALSE))>>)

(***************************************************************************)
(* Properties of the parsing and the validation of a schema.               *)
(***************************************************************************)

\* The properties of the document, its credentialStatus, and the parsing options
\* the constructor works with
DocProperties == Get(jsonSchema, PROPERTIES_KEY)

StatusNode == Get(DocProperties, STATUS_STR)

GivenOpts == MergeParsingOpts(parsingOpts)

\* The document declares no credentialStatus or the one of statusAsJsonSchema
PlainStatus == StatusNode \in {Undefined, statusAsJsonSchema}

\* A leaf that lacks what strict parsing asks of it
MissingMinimum(node) == Get(node, TYPE_STR) = Str(INT_TYPE) /\ Get(node, MINIMUM_KEY) = Undefined

MissingOfNumber(node) ==
  /\ Get(node, TYPE_STR) = Str(NUMBER_STR)
  /\ Get(node, MINIMUM_KEY) = Undefined \/ Get(node, MULTIPLE_OF_KEY) = Undefined

UnknownType(node) ==
  /\ Get(node, REF_KEY) = Undefined
  /\ Get(node, TYPE_STR).t = "string"
  /\ Get(node, TYPE_STR).s \notin {STR_TYPE, INT_TYPE, NUMBER_STR, OBJECT_STR, ARRAY_STR}

\* The minimum and the decimal places of a leaf with the defaults filled in
EffectiveMinimum(node) ==
  IF Get(node, MINIMUM_KEY) # Undefined THEN Get(node, MINIMUM_KEY)
  ELSE Num(GivenOpts.defaultMinimumInteger)

EffectivePlaces(node) ==
  IF Get(node, MULTIPLE_OF_KEY) # Undefined THEN PlacesOf(Get(node, MULTIPLE_OF_KEY))
  ELSE Num(GivenOpts.defaultDecimalPlaces)

\* The leaf descriptor of a numeric leaf with the defaults filled in
WithDefaults(node) ==
  IF Get(node, TYPE_STR) = Str(INT_TYPE)
    THEN IF ~EffectiveMinimum(node).n.neg
           THEN Obj(<<KV(TYPE_STR, Str(POSITIVE_INT_TYPE))>>)
           ELSE Obj(<<KV(TYPE_STR, Str(INT_TYPE)), KV(MINIMUM_KEY, EffectiveMinimum(node))>>)
    ELSE IF ~EffectiveMinimum(node).n.neg
           THEN Obj(<<KV(TYPE_STR, Str(POSITIVE_NUM_TYPE)),
                      KV(DECIMAL_PLACES_KEY, EffectivePlaces(node))>>)
           ELSE Obj(<<KV(TYPE_STR, Str(NUM_TYPE)),
                      KV(MINIMUM_KEY, EffectiveMinimum(node)),
                      KV(DECIMAL_PLACES_KEY, EffectivePlaces(node))>>)

\* The values filled in are ones every later check accepts: an integer minimum,
\* a multipleOf that getDecimalPlaces reads or non-negative integer default places
FilledInSound(node) ==
  /\ IsInteger(EffectiveMinimum(node).n)
  /\ IF Get(node, MULTIPLE_OF_KEY) = Undefined
       THEN IsInteger(GivenOpts.defaultDecimalPlaces) /\ ~GivenOpts.defaultDecimalPlaces.neg
       ELSE \E k \in 1..6 : Get(node, MULTIPLE_OF_KEY) = Num(PowTen(k))

C12_PowerOfTenGivesPlaces ==
  cs.st # "none" /\ PlainStatus =>
    \A p \in DOMAIN SubjectProperties : \A k \in 0..MaxExponent :
      LET node == SubjectProperties[p].v
      IN /\ Get(node, TYPE_STR) = Str(NUMBER_STR)
         /\ Get(node, MINIMUM_KEY) # Undefined
         /\ Get(node, MULTIPLE_OF_KEY) = Num(PowTen(k))
         => /\ cs.st = "built"
            /\ Get(Converted(SubjectProperties[p].k), DECIMAL_PLACES_KEY) = Num(IntNum(k))

\* The constructor threw for a number leaf of minimum -100 and multipleOf 10^-7
\* in a document with nothing else to refuse
C12_Witness ==
  /\ cs.st = "threw"
  /\ StatusNode = Undefined
  /\ Get(Get(DocProperties, SUBJECT_STR), PROPERTIES_KEY) =
       Obj(<<KV(NAME_KEY, NumberNode({IntNum(0 - 100)}, {PowTen(7)}))>>)

OtherNames == {AUD_KEY, NAME_KEY, SUBJECT_STR \o <<46>> \o SSN_KEY \o <<46>> \o SSN_KEY}

\* The Encoder factory that goes with a leaf type
FactoryOf(type) ==
  CASE type = STR_REV_TYPE -> "reversibleEncoderString"
    [] type = POSITIVE_INT_TYPE -> "positiveIntegerEncoder"
    [] type = INT_TYPE -> "integerEncoder"
    [] type = POSITIVE_NUM_TYPE -> "positiveDecimalNumberEncoder"
    [] type = NUM_TYPE -> "decimalNumberEncoder"
    [] OTHER -> "defaultEncodeFunc"

\* C14: the encoder of a constructed schema has an encode function for every name
\* flatten() lists, the one of the leaf's type with the leaf's parameters (the
\* default one for the two implicit names); a name flatten() does not list is
\* encoded by the default encoder when useDefaults is set and by nothing, the call
\* failing, when it is not.
C14_EncoderCoversFlattenedNames ==
  cs.st = "built" =>
    /\ \A i \in DOMAIN flatten(cs)[1] :
         LET name == flatten(cs)[1][i]
             leaf == flatten(cs)[2][i]
             used == encodeMessage(cs.encoder, name)
         IN /\ Cardinality(used) = 1
            /\ \A e \in used :
                 IF name \in {CRYPTO_VERSION_STR, SCHEMA_STR} THEN e = defaultEncoder
                 ELSE /\ e.f = FactoryOf(Get(leaf, TYPE_STR).s)
                      /\ \A a \in DOMAIN e.args :
                           e.args[a] \in {Get(leaf, MINIMUM_KEY), Get(leaf, DECIMAL_PLACES_KEY),
                                          Get(leaf, COMPRESS_KEY)} \ {Undefined}
    /\ \A name \in OtherNames :
         name \notin {flatten(cs)[1][i] : i \in DOMAIN flatten(cs)[1]} =>
           encodeMessage(cs.encoder, name) =
             IF cs.parsingOptions.useDefaults THEN {defaultEncoder} ELSE {}

\* A schema constructed under strict parsing whose leaf credentialSubject.name is
\* encoded by integerEncoder(-100) and for which encoding aud fails
C14_Witness ==
  /\ cs.st = "built"
  /\ ~cs.parsingOptions.useDefaults
  /\ encodeMessage(cs.encoder, AUD_KEY) = {}
  /\ encodeMessage(cs.encoder, SUBJECT_STR \o <<46>> \o NAME_KEY) =
       {EncodeFunc("integerEncoder", <<Num(IntNum(0 - 100))>>)}


(***************************************************************************)
(* Properties of credentials.                                              *)
(***************************************************************************)
\* The paths of the values of an object: a child at <parent>.<child>, an item of
\* an array at <parent>.<index>
RECURSIVE ValuePaths(_, _)
ValuePaths(v, path) ==
  IF v.t \in {"object", "array"} /\ Entries(v) # <<>>
    THEN UNION {ValuePaths(Entries(v)[i].v, Join(path, Entries(v)[i].k)) :
                  i \in DOMAIN Entries(v)}
    ELSE {path}

\* The paths of the subject and of the status of a builder
BuilderPaths(builder) ==
  ValuePaths(builder.subject, SUBJECT_STR)
    \cup (IF builder.credStatus = Undefined THEN {}
          ELSE ValuePaths(builder.credStatus, STATUS_STR))

\* The non-implicit leaf set of a schema
SchemaPaths(schema) ==
  {leaf[1] : leaf \in Leaves(schema.schema, <<>>)} \ {CRYPTO_VERSION_STR, SCHEMA_STR}

C16_SignVerifyRoundTrip ==
  verified.op # "none" =>
    /\ (cred = issued /\ verified.pk = issued.signature.by) => verified.ok
    /\ cred # issued => ~verified.ok
    /\ verified.op = "checkJsonConvForCred" => verified.sameJSON

\* The verification, with the right key, of a credential with an attribute changed
\* and the signature as issued has failed
C16_Witness ==
  /\ verified.op = "verify"
  /\ cred.st = "signed"
  /\ verified.pk = issued.signature.by
  /\ cred.signature = issued.signature
  /\ cred.subject # issued.subject
  /\ ~verified.ok

(***************************************************************************)
(* Properties of the presentation builder.                                 *)
(***************************************************************************)
\* C17: a call of addCredential returns the number of credentials the builder had
\* before it (the k-th call returns k - 1) and puts the pair it was given at that
\* index, and no call on the builder, finalize included, removes or changes the
\* pair at an index.
C17_AddCredentialReturnsIndex ==
  [][/\ (pbCall'.op = "addCredential" /\ pbCall'.returned # pbCall.returned) =>
          /\ pbCall'.returned = Len(pb.credentials)
          /\ Len(pb'.credentials) = Len(pb.credentials) + 1
          /\ pbCall'.idxs = {pb'.credentials[pbCall'.returned + 1]}
     /\ \A i \in DOMAIN pb.credentials :
          i \in DOMAIN pb'.credentials /\ pb'.credentials[i] = pb.credentials[i]]_vars

\* A second credential, other than the first, was added and got index 1, and
\* finalize has built a presentation since
C17_Witness ==
  /\ pbCall.op = "addCredential"
  /\ pbCall.returned = 1
  /\ Len(pb.credentials) = 2
  /\ pb.credentials[1] # pb.credentials[2]
  /\ presentation.st = "built"

\* The calls that take credential indices
IndexedCalls == {"markAttributesRevealed", "markAttributesEqual", "addAccumInfoForCredStatus"}

\* C18 (as stated): a call of markAttributesRevealed, markAttributesEqual or
\* addAccumInfoForCredStatus with an index that is not in 0..n-1, n the number of
\* credentials, throws, and a call that throws leaves revealedAttributes,
\* attributeEqualities and credStatuses as they were.
C18_OutOfRangeIndexFails ==
  [][(pbCall'.calls # pbCall.calls /\ pbCall'.op \in IndexedCalls) =>
       /\ ~(pbCall'.idxs \subseteq 0..(Len(pb.credentials) - 1)) => pbCall'.threw
       /\ pbCall'.threw =>
            /\ pb'.revealedAttributes = pb.revealedAttributes
            /\ pb'.attributeEqualities = pb.attributeEqualities
            /\ pb'.credStatuses = pb.credStatuses]_vars

\* markAttributesRevealed(-1, ...) has returned and revealedAttributes has the key -1
C18_Witness ==
  /\ pbCall.op = "markAttributesRevealed"
  /\ pbCall.idxs = {0 - 1}
  /\ ~pbCall.threw
  /\ (0 - 1) \in DOMAIN pb.revealedAttributes

\* The signature statements of a presentation: statement i is that of the
\* credential with index i - 1
SignatureStatements ==
  {s \in DOMAIN presentation.statements : presentation.statements[s].kind = "bbsSignature"}

\* The names finalize is to reveal of a credential whatever was marked
AlwaysRevealed(c) ==
  {CRYPTO_VERSION_STR, SCHEMA_STR}
    \cup (IF c.credStatus # Undefined
            THEN {STATUS_STR \o <<46>> \o ID_STR, STATUS_STR \o <<46>> \o REV_CHECK_STR}
            ELSE {})

\* C19: in a presentation built by finalize the signature statement of every
\* credential reveals the messages at the positions of cryptoVersion and
\* credentialSchema and, when the credential has a status, of the status id and the
\* status revocationCheck, whatever was marked as revealed for it; and every
\* credential that finalize presented has its version and its schema in the
\* specification.
C19_AlwaysRevealed ==
  /\ presentation.st = "built" =>
       \A s \in SignatureStatements :
         \A name \in AlwaysRevealed(CredAt(pb, s - 1)) :
           indexOf(flatten(CredAt(pb, s - 1).schema)[1], name)
             \in DOMAIN presentation.statements[s].revealedMsgs
  /\ \A e \in DOMAIN pb.spec.credentials :
       pb.spec.credentials[e].version # {} /\ pb.spec.credentials[e].schema # {}

\* A presentation of a credential with a status for which nothing was marked
C19_Witness ==
  /\ presentation.st = "built"
  /\ SignatureStatements # {}
  /\ CredAt(pb, 0).credStatus # Undefined
  /\ 0 \notin DOMAIN pb.revealedAttributes

\* C20: a presentation built by finalize for n credentials has as many witnesses
\* as statements; statement i (from 0) for i < n is the signature statement of the
\* credential with index i, with its public key, and witness i holds its signature;
\* the statements from n on are the accumulator statements of the credentials with
\* a status in increasing order of credential index, each of the kind of the
\* credential's revocationCheck, with a witness of that kind.
C20_StatementOrder ==
  presentation.st = "built" =>
    LET n == Cardinality(SignatureStatements)
        aux == Increasing({i \in 0..(n - 1) : CredAt(pb, i).credStatus # Undefined})
    IN /\ Len(presentation.statements) = Len(presentation.witnesses)
       /\ Len(presentation.statements) = n + Len(aux)
       /\ SignatureStatements = 1..n
       /\ \A i \in 1..n :
            /\ presentation.statements[i].pk = PkAt(pb, i - 1)
            /\ presentation.witnesses[i].kind = "bbsSignature"
            /\ presentation.witnesses[i].signature = CredAt(pb, i - 1).signature
       /\ \A a \in DOMAIN aux :
            /\ presentation.statements[n + a].kind =
                 (IF Get(CredAt(pb, aux[a]).credStatus, REV_CHECK_STR) = Str(MEM_CHECK_STR)
                    THEN "accumulatorMembership" ELSE "accumulatorNonMembership")
            /\ presentation.witnesses[n + a].kind = presentation.statements[n + a].kind
            /\ presentation.witnesses[n + a].value.of =
                 Get(CredAt(pb, aux[a]).credStatus, REV_ID_STR)
            /\ presentation.metaStatements[a][1][1] = aux[a]
            /\ presentation.metaStatements[a][2][1] = n + a - 1

\* A presentation of two credentials with a status, the first checked by
\* non-membership and the second by membership
C20_Witness ==
  /\ presentation.st = "built"
  /\ Len(presentation.statements) = 4
  /\ presentation.statements[3].kind = "accumulatorNonMembership"
  /\ presentation.statements[4].kind = "accumulatorMembership"

\* The kind of accumulator statement that goes with a credential status
KindOf(credStatus) ==
  IF Get(credStatus, REV_CHECK_STR) = Str(MEM_CHECK_STR)
    THEN "accumulatorMembership" ELSE "accumulatorNonMembership"

\* The witness equalities of a presentation that have the reference <<s, pos>>
Linking(s, pos) ==
  {m \in DOMAIN presentation.metaStatements :
     \E r \in DOMAIN presentation.metaStatements[m] :
       presentation.metaStatements[m][r] = <<s, pos>>}

\* C21: a presentation built by finalize has one accumulator statement for each
\* of its credentials with a status and no other; for such a credential i exactly
\* one witness equality refers to (i, position of credentialStatus.revocationId in
\* the flattened schema of credential i), it is made of this reference and of
\* (index of an accumulator statement of the kind of the credential's
\* revocationCheck, 0), no two credentials share the accumulator statement, and the
\* position is one of the flattened schema whose message is not revealed.
C21_StatusWitnessEquality ==
  presentation.st = "built" =>
    LET n == Cardinality(SignatureStatements)
        withStatus == {i \in 0..(n - 1) : CredAt(pb, i).credStatus # Undefined}
        pos(i) == indexOf(flatten(CredAt(pb, i).schema)[1],
                          STATUS_STR \o <<46>> \o REV_ID_STR)
        sIdx(i) == presentation.metaStatements[CHOOSE m \in Linking(i, pos(i)) : TRUE][2][1]
    IN /\ Len(presentation.statements) - n = Cardinality(withStatus)
       /\ \A i \in withStatus :
            /\ pos(i) \in 0..(Len(flatten(CredAt(pb, i).schema)[1]) - 1)
            /\ pos(i) \in DOMAIN presentation.witnesses[i + 1].unrevealedMsgs
            /\ pos(i) \notin DOMAIN presentation.statements[i + 1].revealedMsgs
            /\ Cardinality(Linking(i, pos(i))) = 1
            /\ \A m \in Linking(i, pos(i)) :
                 /\ Len(presentation.metaStatements[m]) = 2
                 /\ presentation.metaStatements[m][1] = <<i, pos(i)>>
                 /\ presentation.metaStatements[m][2][2] = 0
            /\ sIdx(i) \in n..(Len(presentation.statements) - 1)
            /\ presentation.statements[sIdx(i) + 1].kind = KindOf(CredAt(pb, i).credStatus)
       /\ \A i1, i2 \in withStatus : i1 # i2 => sIdx(i1) # sIdx(i2)

\* A presentation of a credential without a status and one with a status checked
\* by non-membership, with an attribute equality between the two
C21_Witness ==
  /\ presentation.st = "built"
  /\ Len(presentation.statements) = 3
  /\ presentation.statements[3].kind = "accumulatorNonMembership"
  /\ Len(presentation.metaStatements) = 2

\* A step of finalize
FinalizeStep == pbCall'.finalizes # pbCall.finalizes

\* C22: finalize throws 'No status details found' and leaves no presentation
\* exactly when a credential of the builder has a status and
\* addAccumInfoForCredStatus was not called for its index.
C22_StatusInfoRequired ==
  [][FinalizeStep =>
       ((presentation'.st = "threw" /\ presentation'.error = "No status details found")
          <=> \E i \in 0..(Len(pb.credentials) - 1) :
                /\ CredAt(pb, i).credStatus # Undefined
                /\ i \notin DOMAIN pb.credStatuses)]_vars

\* finalize threw on a builder whose second credential has a status without
\* details while the first has a status with details
C22_Witness ==
  /\ presentation.st = "threw"
  /\ presentation.error = "No status details found"
  /\ Len(pb.credentials) = 2
  /\ CredAt(pb, 0).credStatus # Undefined
  /\ 0 \in DOMAIN pb.credStatuses
  /\ 1 \notin DOMAIN pb.credStatuses

\* The position of a subject attribute in the flattened schema of a credential
SubjectPosition(b, ref) ==
  indexOf(flatten(CredAt(b, ref[1]).schema)[1], SUBJECT_STR \o <<46>> \o ref[2])

\* C23: a finalize that builds a presentation adds, after the witness equalities
\* of the statuses, one witness equality for each markAttributesEqual request, in
\* the order of the requests, whose references are, in the order of the request,
\* (credIdx, position of credentialSubject.name in the flattened schema of that
\* credential), every position being one of the schema, and appends the requests
\* in their order to attributeEqualities of the specification; and a finalize
\* that gets to the requests throws when a name of a request is not in the
\* flattened schema of its credential.
C23_EqualitiesResolved ==
  [][FinalizeStep =>
       LET eqs == pb.attributeEqualities
           absent == \E e \in DOMAIN eqs : \E r \in DOMAIN eqs[e] :
                       /\ eqs[e][r][1] \in 0..(Len(pb.credentials) - 1)
                       /\ SubjectPosition(pb, eqs[e][r]) = 0 - 1
       IN /\ presentation'.st = "built" =>
               LET ms == presentation'.metaStatements
                   first == Len(ms) - Len(eqs)
               IN /\ first = Len(presentation'.statements) - Len(pb.credentials)
                  /\ \A e \in DOMAIN eqs :
                       /\ Len(ms[first + e]) = Len(eqs[e])
                       /\ \A r \in DOMAIN eqs[e] :
                            /\ ms[first + e][r] = <<eqs[e][r][1], SubjectPosition(pb, eqs[e][r])>>
                            /\ ms[first + e][r][2] >= 0
                  /\ pb'.spec.attributeEqualities = pb.spec.attributeEqualities \o eqs
                  /\ presentation'.spec.attributeEqualities = pb'.spec.attributeEqualities
          /\ absent => presentation'.st = "threw"
          /\ (presentation'.st = "threw"
                /\ presentation'.error = "Attribute name was not found") => absent]_vars

\* A presentation with two attribute equalities, on the same name and on two names
C23_Witness ==
  /\ presentation.st = "built"
  /\ Len(presentation.spec.attributeEqualities) = 2
  /\ presentation.spec.attributeEqualities[1] # presentation.spec.attributeEqualities[2]
  /\ Len(presentation.metaStatements) = 2
  /\ presentation.metaStatements[1] # presentation.metaStatements[2]

\* finalize threw for a name that the schema of its credential has not
C23_WitnessAbsent ==
  /\ presentation.st = "threw"
  /\ presentation.error = "Attribute name was not found"

(***************************************************************************)
(* Properties of the threshold signer.                                     *)
(***************************************************************************)
\* A step that is a call on the signer
SignerStep == tsCall'.tick # tsCall.tick

\* C39: adapt(n) of params without a label throws; of params with a label it
\* returns params of the same label that support exactly n messages, with the g,
\* g_tilde and first n generators of the receiver when n is not above its count;
\* the receiver is as it was; adapt(b) of the result of adapt(a), b <= a <= count,
\* is what adapt(b) of the receiver returns; getSigParamsOfRequiredSize(m, params)
\* throws when the params support another count and have no label, and otherwise
\* returns params that support exactly m messages (the params themselves when they
\* support m).
C39_AdaptedParamsSupportCount ==
  (sigParams # NoParams /\ sigParams.call # "none") =>
    /\ sigParams.this = sigParams.was
    /\ sigParams.call = "adapt" =>
         IF sigParams.this.label = NoLabel THEN ~sigParams.out.ok
         ELSE /\ sigParams.out.ok
              /\ supportedMessageCount(sigParams.out.val) = sigParams.n
              /\ sigParams.out.val.label = sigParams.this.label
              /\ sigParams.n <= supportedMessageCount(sigParams.this) =>
                   /\ sigParams.out.val.value.g = sigParams.this.value.g
                   /\ sigParams.out.val.value.g_tilde = sigParams.this.value.g_tilde
                   /\ sigParams.out.val.value.h = SubSeq(sigParams.this.value.h, 1, sigParams.n)
    /\ (sigParams.call = "adapt adapt" /\ sigParams.n <= sigParams.a /\ sigParams.a <= supportedMessageCount(sigParams.this)) =>
         sigParams.out = adapt(sigParams.this, sigParams.n)
    /\ sigParams.call = "getSigParamsOfRequiredSize" /\ ~sigParams.byLabel =>
         IF supportedMessageCount(sigParams.this) = sigParams.n THEN sigParams.out = Returned(sigParams.this)
         ELSE IF sigParams.this.label = NoLabel THEN ~sigParams.out.ok
         ELSE sigParams.out.ok /\ supportedMessageCount(sigParams.out.val) = sigParams.n
    /\ sigParams.call = "getSigParamsOfRequiredSize" /\ sigParams.byLabel =>
         sigParams.out.ok /\ supportedMessageCount(sigParams.out.val) = sigParams.n

\* adapt(1) of the result of adapt(2) of params of a label that support three
\* messages
C39_Witness ==
  /\ sigParams # NoParams
  /\ sigParams.call = "adapt adapt"
  /\ supportedMessageCount(sigParams.this) = 3
  /\ sigParams.a = 2
  /\ sigParams.n = 1
  /\ sigParams.out.ok
  /\ sigParams.out.val.value.h = <<sigParams.this.value.h[1]>>

\* getSigParamsOfRequiredSize with params without a label that support another
\* count
C39_WitnessMismatch ==
  /\ sigParams # NoParams
  /\ sigParams.call = "getSigParamsOfRequiredSize"
  /\ ~sigParams.byLabel
  /\ sigParams.this.label = NoLabel
  /\ ~sigParams.out.ok

\* A leaf descriptor of the closed set with the parameters of its type
WellFormedLeaf(value) ==
  /\ Get(value, TYPE_STR) \in
       {Str(t) : t \in {STR_TYPE, STR_REV_TYPE, POSITIVE_INT_TYPE, INT_TYPE,
                        POSITIVE_NUM_TYPE, NUM_TYPE}}
  /\ Get(value, TYPE_STR) = Str(STR_REV_TYPE) =>
       Get(value, COMPRESS_KEY) \in {Bool(TRUE), Bool(FALSE)}
  /\ Get(value, TYPE_STR) \in {Str(INT_TYPE), Str(NUM_TYPE)} =>
       /\ Get(value, MINIMUM_KEY).t = "number"
       /\ Get(value, MINIMUM_KEY).n.frac = <<>>
  /\ Get(value, TYPE_STR) \in {Str(POSITIVE_NUM_TYPE), Str(NUM_TYPE)} =>
       /\ Get(value, DECIMAL_PLACES_KEY).t = "number"
       /\ Get(value, DECIMAL_PLACES_KEY).n.frac = <<>>
       /\ ~Get(value, DECIMAL_PLACES_KEY).n.neg

\* The ValueType that goes with the type of a leaf descriptor
ValueTypeOf(value) ==
  CASE Get(value, TYPE_STR) = Str(STR_TYPE) -> "Str"
    [] Get(value, TYPE_STR) = Str(STR_REV_TYPE) -> "RevStr"
    [] Get(value, TYPE_STR) = Str(POSITIVE_INT_TYPE) -> "PositiveInteger"
    [] Get(value, TYPE_STR) = Str(INT_TYPE) -> "Integer"
    [] Get(value, TYPE_STR) = Str(POSITIVE_NUM_TYPE) -> "PositiveNumber"
    [] Get(value, TYPE_STR) = Str(NUM_TYPE) -> "Number"

\* The parameters of a leaf descriptor: what it has besides its type, title and
\* the like
ParametersOf(value) ==
  {kv \in Range(value.kv) : kv.k \in {COMPRESS_KEY, MINIMUM_KEY, DECIMAL_PLACES_KEY}}

C38_WitnessNotListed ==
  /\ typed.st = "called"
  /\ typed.name = NAME_KEY
  /\ ~typed.out.ok

\* No mutation of the accumulator is in flight
Quiescent == \A p \in Callers : inFlight.calls[p].pc = "idle"

\* The store holds what the successful calls added and did not remove, and the
\* accumulator value has exactly the stored members folded in, once
SetTracked ==
  /\ accState = added
  /\ \A e \in Elems : accumulated[e] = IF has(accState, e) THEN 1 ELSE 0

\* An add or remove in flight decides on the store as it is, and the write of a
\* call that passed its check goes through
FailsAsChecked ==
  /\ \A p \in Callers :
       /\ inFlight.calls[p].pc = "read" =>
            inFlight.calls[p].seen = has(accState, inFlight.calls[p].e)
       /\ inFlight.calls[p].pc = "write" =>
            has(accState, inFlight.calls[p].e) # (inFlight.calls[p].op = "add")
       /\ inFlight.calls[p].pc = "idle" => inFlight.calls[p].outcome # "midway"

\* C37: as long as no add or remove was called while another was in flight, every
\* call decides on the store as it is when it is called, a call that passes its
\* check writes the store without failing, and between the calls the store holds
\* the elements added and not removed and the accumulator value has exactly these
\* folded in.  (Interleaved at the reads and writes of the store, two calls can
\* both pass their checks and end otherwise: C37_Witness.)
C37_SerializedMutationsKeepGuarantees ==
  ~inFlight.overlapped =>
    /\ FailsAsChecked
    /\ Quiescent => SetTracked

\* Two add(e) of the same absent e, the second called while the first awaited
\* the store: both passed the check of absence, one returned and the other threw
\* in the store after folding e into the accumulator value a second time
C37_Witness ==
  /\ inFlight.overlapped
  /\ Quiescent
  /\ {inFlight.calls[p].outcome : p \in Callers} = {"ok", "midway"}
  /\ \E e \in Elems : has(accState, e) /\ accumulated[e] = 2
  /\ ~SetTracked

\* Calls made one after another: an add that returned, then a rejected add of
\* the same element
C37_WitnessSerialized ==
  /\ ~inFlight.overlapped
  /\ Quiescent
  /\ {inFlight.calls[p].outcome : p \in Callers} = {"ok", "rejected"}
  /\ accState # {}

\* The same guarantees without the condition on interleaving
C37_GuaranteesWhenInterleaved ==
  /\ FailsAsChecked
  /\ Quiescent => SetTracked

\* The revocationCheck of credential i of the builder
RevCheckOf(b, i) == Get(CredAt(b, i).credStatus, REV_CHECK_STR)

\* The kind of witness a revocationCheck asks for; none for a revocationCheck that
\* is neither 'membership' nor 'non-membership'
WitnessFor(revCheck) ==
  IF revCheck = Str(MEM_CHECK_STR) THEN {"MembershipWitness"}
  ELSE IF revCheck = Str(NON_MEM_CHECK_STR) THEN {"NonMembershipWitness"}
  ELSE {}

\* C36: finalize throws and builds no presentation when, for a credential with a
\* status and status details, the witness is not of the kind the revocationCheck
\* asks for: a membership witness for 'membership', a non-membership witness for
\* 'non-membership', and no witness at all for any other revocationCheck.
C36_WrongVariantRejected ==
  [][FinalizeStep =>
       ((\E i \in StatusCreds(pb) \ MissingStatus(pb) :
           pb.credStatuses[i].wit \notin WitnessFor(RevCheckOf(pb, i)))
        => presentation'.st = "threw")]_vars

\* A presentation built of a credential whose revocationCheck is neither
\* 'membership' nor 'non-membership', with a non-membership witness
C36_Witness ==
  /\ presentation.st = "built"
  /\ Len(pb.credentials) = 1
  /\ RevCheckOf(pb, 0) = Str(OTHER_CHECK_STR)
  /\ 0 \in DOMAIN pb.credStatuses
  /\ pb.credStatuses[0].wit = "NonMembershipWitness"
  /\ Len(presentation.statements) = 2
  /\ presentation.statements[2].kind = "accumulatorNonMembership"

\* The same finalize on credentials of the two declared checks only: a witness of
\* the other kind makes finalize throw
C36_DeclaredChecks ==
  [][FinalizeStep =>
       ((\E i \in StatusCreds(pb) \ MissingStatus(pb) :
           /\ WitnessFor(RevCheckOf(pb, i)) # {}
           /\ pb.credStatuses[i].wit \notin WitnessFor(RevCheckOf(pb, i)))
        => presentation'.st = "threw")]_vars

\* C35: the specification in the JSON of a builder whose finalize built a
\* presentation has the presented credentials and the attribute equalities of the
\* presentation specification.
C35_SerializedSpecSuffices ==
  serialized.st = "done" =>
    /\ "credentials" \in DOMAIN serialized.json.spec
    /\ serialized.json.spec.credentials = presentation.spec.credentials
    /\ "attributeEqualities" \in DOMAIN serialized.json.spec
    /\ serialized.json.spec.attributeEqualities = presentation.spec.attributeEqualities

\* The JSON of a builder with two credentials and an attribute equality between
\* them, after finalize
C35_Witness ==
  /\ serialized.st = "done"
  /\ Len(serialized.json.spec.credentials) = 2
  /\ Len(presentation.spec.attributeEqualities) = 1
  /\ Len(presentation.metaStatements) = 1

\* The proof spec that finalize hands to the generation of the proof
HandedToGeneration(result, context) ==
  toProofSpec(QuasiProofSpecG1(result.statements, result.metaStatements, <<>>, context))

\* C34: a finalize that gets to the generation of the proof hands it a proof spec
\* that isValid() accepts: every reference of a witness equality is to a
\* statement of the proof spec and to a position that the statement does not
\* reveal.
C34_InvalidSpecNotGenerated ==
  [][FinalizeStep =>
       \A out \in {finalize(pb).result} :
         out.st = "built" => isValid(HandedToGeneration(out, pb.context))]_vars

\* A presentation of two credentials whose names are marked equal, the name of
\* the first being marked as revealed too: the witness equality refers to a
\* revealed position, and the proof was generated
C34_Witness ==
  /\ presentation.st = "built"
  /\ Len(presentation.metaStatements) = 1
  /\ Len(presentation.spec.attributeEqualities) = 1
  /\ ~isValid(HandedToGeneration(presentation, presentation.context))
  /\ \E r \in DOMAIN presentation.metaStatements[1] :
       presentation.metaStatements[1][r][2]
         \in DOMAIN presentation.statements[presentation.metaStatements[1][r][1] + 1].revealedMsgs

\* The subject attributes marked as revealed for credential i of a builder
MarkedOf(b, i) == IF i \in DOMAIN b.revealedAttributes THEN b.revealedAttributes[i] ELSE {}

C32_OnePresentedPerCredential ==
  [][(FinalizeStep /\ presentation'.st = "built") =>
       /\ Len(presentation'.spec.credentials) = Len(pb.credentials)
       /\ \A i \in 1..Len(pb.credentials) :
            presentation'.spec.credentials[i] = Presented(pb, i - 1).credential]_vars

\* finalize has returned at its second call, after a first call that threw at the
\* second credential for want of its status details: three presented
\* credentials for two credentials
C32_Witness ==
  /\ pbCall.finalizes = 2
  /\ presentation.st = "built"
  /\ Len(pb.credentials) = 2
  /\ Len(presentation.spec.credentials) = 3

\* C31: a call of startRound1 that returns on a signer that has started leaves
\* round1State as it is, and so does a call of startRound2 with round2State on a
\* signer that has started round 2: what was processed in a round is never
\* discarded.
C31_RoundsStartedOnce ==
  [][/\ (SignerStep /\ tsCall'.op = "startRound1" /\ hasStarted(signer)) =>
          signer'.round1State = signer.round1State
     /\ (SignerStep /\ tsCall'.op = "startRound2" /\ hasStartedRound2(signer)) =>
          signer'.round2State = signer.round2State]_vars

\* startRound1 has returned on a signer that has the output of round 1, which
\* was made of a round 1 started before: round1State is that of a round just
\* started, and round1Output is of the earlier one
C31_Witness ==
  /\ tsCall.op = "startRound1"
  /\ ~tsCall.threw
  /\ hasFinishedRound1(signer)
  /\ signer.round1State.commitments = {}
  /\ \E i \in DOMAIN tsLog : tsLog[i] = "finishR1"

\* The scalar encoding, by a schema, of the value of a blinded subject at a path
EncodingAt(schema, blindedSubject, name) ==
  [by |-> CHOOSE f \in encodeMessage(schema.encoder, name) : TRUE,
   of |-> Get(Obj(Flat(UnderSubject(blindedSubject))), name)]

C27_WitnessOther ==
  /\ blind.stage = "unblinded"
  /\ blind.passed # [blindedSubject |-> blind.builder.subjectToBlind,
                     blinding |-> blind.blinding]
  /\ ~verify(blind.credential, blind.sk)

\* C28: startRound2 returns only on a signer whose round 1 has finished and
\* otherwise throws and changes no field; processReceivedMsg1, processReceivedMsg2
\* and finishRound2 return only on a signer on which startRound2 has returned and
\* otherwise throw and change no field; and when finishRound2 has returned,
\* startRound1, finishR1 and startRound2 first returned before it, in this order.
C28_PhasesInOrder ==
  [][SignerStep =>
       /\ tsCall'.op = "startRound2" =>
            /\ ~tsCall'.threw => hasFinishedRound1(signer)
            /\ ~hasFinishedRound1(signer) => tsCall'.threw /\ signer' = signer
       /\ tsCall'.op \in {"processReceivedMsg1", "processReceivedMsg2", "finishRound2"} =>
            /\ ~tsCall'.threw =>
                 hasStartedRound2(signer) /\ \E i \in DOMAIN tsLog : tsLog[i] = "startRound2"
            /\ ~hasStartedRound2(signer) => tsCall'.threw /\ signer' = signer
       /\ (tsCall'.op = "finishRound2" /\ ~tsCall'.threw) =>
            tsLog' = <<"startRound1", "finishR1", "startRound2", "finishRound2">>]_vars

\* finishRound2 has returned
C28_Witness ==
  /\ tsCall.op = "finishRound2"
  /\ ~tsCall.threw
  /\ hasFinishedRound2(signer)

\* The methods of round 1 that ask for round 1 to have started
Round1Methods ==
  {"processReceivedCommitments", "getSharesForOtherSigner", "getSharesForOtherSigners",
   "processReceivedShares", "finishR1"}

\* C29: on a signer on which startRound1 has not returned, processReceivedCommitments,
\* getSharesForOtherSigner, getSharesForOtherSigners, processReceivedShares and
\* finishR1 throw 'Round 1 has not started yet' and change no field of the signer.
C29_Round1NotStarted ==
  [][(SignerStep /\ tsCall'.op \in Round1Methods /\ tsLog = <<>>) =>
       /\ tsCall'.threw
       /\ tsCall'.error = "Round 1 has not started yet"
       /\ signer' = signer]_vars

\* processReceivedCommitments has thrown on a signer that has not started
C29_Witness ==
  /\ tsCall.op = "processReceivedCommitments"
  /\ tsCall.threw
  /\ tsCall.error = "Round 1 has not started yet"
  /\ ~hasStarted(signer)

\* C30: in every state of a signer hasFinishedRound2() implies hasStartedRound2(),
\* which implies hasFinishedRound1(), which implies hasStarted(); a step keeps each
\* of the four true once it is; and no step changes id, others, sigBatchSize or
\* protocolId.
C30_FlagsMonotone ==
  [][/\ hasFinishedRound2(signer') => hasStartedRound2(signer')
     /\ hasStartedRound2(signer') => hasFinishedRound1(signer')
     /\ hasFinishedRound1(signer') => hasStarted(signer')
     /\ hasStarted(signer) => hasStarted(signer')
     /\ hasFinishedRound1(signer) => hasFinishedRound1(signer')
     /\ hasStartedRound2(signer) => hasStartedRound2(signer')
     /\ hasFinishedRound2(signer) => hasFinishedRound2(signer')
     /\ signer'.id = signer.id
     /\ signer'.others = signer.others
     /\ signer'.sigBatchSize = signer.sigBatchSize
     /\ signer'.protocolId = signer.protocolId]_vars

\* startRound1 has returned again on a signer that has finished round 2
C30_Witness ==
  /\ tsCall.op = "startRound1"
  /\ ~tsCall.threw
  /\ hasFinishedRound2(signer)
  /\ signer.round1State = [commitments |-> {}, shares |-> {}]

(***************************************************************************)
(* Properties of the proof specification and of proofs.                    *)
(***************************************************************************)
VerifyStep == verification' # verification

\* C24: a finalize that builds a presentation generates its proof with the nonce
\* and the context the builder has at that time, and the presentation carries
\* both; a verification of a presentation whose witnesses satisfy its statements,
\* with the public keys of the issuers, succeeds with the nonce of the
\* presentation and fails with any other nonce and with none, and as well with a
\* nonce when the presentation has none.
C24_NonceBinding ==
  [][/\ (FinalizeStep /\ presentation'.st = "built") =>
          /\ presentation'.nonce = pb.nonce
          /\ presentation'.context = pb.context
          /\ presentation'.proof.nonce = pb.nonce
          /\ presentation'.proof.spec.context = pb.context
     /\ (VerifyStep /\ verification'.pks = IssuerKeys /\ presentation.proof.sound) =>
          (verification'.verified <=> verification'.nonce = presentation.nonce)]_vars

\* A presentation of a credential by a builder with a nonce and a context,
\* verified with that nonce
C24_Witness ==
  /\ verification.st = "done"
  /\ verification.verified
  /\ verification.nonce = Bytes(1)
  /\ presentation.st = "built"
  /\ presentation.context = Bytes(2)
  /\ Len(presentation.statements) >= 1

\* The scalar of the attribute that a reference of markAttributesEqual names: the
\* value of the subject of the credential with the encoding of its schema
LinkedScalar(b, ref) ==
  [by |-> encodeMessage(CredAt(b, ref[1]).schema.encoder, SUBJECT_STR \o <<46>> \o ref[2]),
   of |-> Get(CredAt(b, ref[1]).subject, ref[2])]

\* Whether the attributes that each of the equalities links are equal scalars of
\* credentials of the builder
AllLinkedEqual(b, equalities) ==
  \A e \in DOMAIN equalities : \A r1, r2 \in DOMAIN equalities[e] :
    /\ equalities[e][r1][1] \in 0..(Len(b.credentials) - 1)
    /\ equalities[e][r2][1] \in 0..(Len(b.credentials) - 1)
    /\ LinkedScalar(b, equalities[e][r1]) = LinkedScalar(b, equalities[e][r2])

\* C25: a finalize of a builder with attributes marked equal that are not equal
\* scalars either throws or builds a presentation that no verification accepts,
\* and the back end throws on generating a proof only then; a verification of a
\* presentation, with the public keys of the issuers and the nonce of the
\* presentation, succeeds if and only if the attributes that each equality of the
\* presentation links are equal scalars.
C25_EqualityEnforced ==
  [][/\ (FinalizeStep /\ ~AllLinkedEqual(pb, pb.attributeEqualities)) =>
          \/ presentation'.st = "threw"
          \/ \A nonce \in Nonces \cup {Undefined} :
               ~presentationVerify(presentation', IssuerKeys, nonce)
     /\ (FinalizeStep /\ presentation' = Thrown("back end")) =>
          ~AllLinkedEqual(pb, pb.attributeEqualities)
     /\ (VerifyStep /\ verification'.pks = IssuerKeys
           /\ verification'.nonce = presentation.nonce) =>
          (verification'.verified
             <=> AllLinkedEqual(pb, presentation.spec.attributeEqualities))]_vars

\* A verified presentation of two credentials of two issuers with the same name,
\* which an equality links
C25_Witness ==
  /\ verification.st = "done"
  /\ verification.verified
  /\ presentation.st = "built"
  /\ Len(presentation.statements) = 2
  /\ presentation.statements[1].pk # presentation.statements[2].pk
  /\ presentation.spec.attributeEqualities = <<(<<(<<0, NAME_KEY>>), (<<1, NAME_KEY>>)>>)>>

\* A presentation of two credentials whose linked attributes differ, built and
\* verified with the keys of the issuers and its nonce: it is not accepted
C25_WitnessUnequal ==
  /\ verification.st = "done"
  /\ ~verification.verified
  /\ verification.pks = IssuerKeys
  /\ presentation.st = "built"
  /\ verification.nonce = presentation.nonce
  /\ presentation.spec.attributeEqualities = <<(<<(<<0, NAME_KEY>>), (<<1, SSN_KEY>>)>>)>>

\* C26: the proof spec that toProofSpec makes of a quasi proof spec built by
\* addStatement, addMetaStatement, addSetupParam and setContext is the ProofSpecG1
\* made directly of the statements, the meta-statements and the setup params
\* given, in the order given, and of the last context given; a call that adds
\* returns the index of what it added; and the proof generated through the
\* quasi spec is the proof generated through the proof spec, and each of them is
\* verified through either with the same result.
C26_QuasiMaterializes ==
  /\ materialized.st = "done" =>
       /\ materialized.spec = materialized.direct
       /\ materialized.proofQuasi = materialized.proofDirect
       /\ Cardinality(materialized.verified) = 1
  /\ qOut.op = "addStatement" =>
       quasi.statements[qOut.returned + 1] = passed.statements[Len(passed.statements)]
  /\ qOut.op = "addMetaStatement" =>
       quasi.metaStatements[qOut.returned + 1] = passed.metaStatements[Len(passed.metaStatements)]
  /\ qOut.op = "addSetupParam" =>
       quasi.setupParams[qOut.returned + 1] = passed.setupParams[Len(passed.setupParams)]

\* A quasi spec of two statements, two different setup params and a context set
\* twice, materialized, with a proof that verifies
C26_Witness ==
  /\ materialized.st = "done"
  /\ Len(materialized.spec.statements) = 2
  /\ Len(materialized.spec.params) = 2
  /\ materialized.spec.params[1] # materialized.spec.params[2]
  /\ materialized.spec.context = Bytes(2)
  /\ materialized.verified = {TRUE}
=============================================================================
